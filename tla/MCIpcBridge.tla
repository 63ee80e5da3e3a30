---------------------------- MODULE MCIpcBridge ----------------------------
(* A small instance of IpcBridge for TLC.                                   *)
EXTENDS IpcBridge
\* the frames of ipc_call, scaled down: longer and shorter than the length field
ShortLengths == [c \in Calls |-> IF c = "requestpassword" THEN 3 ELSE 2]
Fresh == <<80, 24>>
ThreeSizes == {<<80, 24>>, <<80, 40>>, <<100, 40>>}
=============================================================================
