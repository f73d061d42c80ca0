\* Up to two threads in the io_context, and two of the application.
SPECIFICATION Spec
CONSTANTS
    IoThreads = {io1, io2}
    Apps = {a1, a2}
    NoThread = NoThread
INVARIANTS
    NeverStuck
    DoneCallbackAlone
\* callbacks that lock what they are called under stop every thread
CHECK_DEADLOCK FALSE
