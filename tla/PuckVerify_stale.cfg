\* Both tests checked or not, a port open or not, the puck's echo on or off;
\* one readUntil timeout in a behaviour.  The tests end, so the host stops.
CONSTANTS
    MaxTimeouts = 1
SPECIFICATION Spec
INVARIANT ReplyAnswersCommand
CHECK_DEADLOCK FALSE
