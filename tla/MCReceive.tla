------------------------------ MODULE MCReceive ------------------------------
(***************************************************************************)
(* An instance of Receive: the frames the peer may send.                   *)
(***************************************************************************)
EXTENDS Receive

Text(type, content, codec, rate) ==
    [type |-> type, content |-> content, codec |-> codec, rate |-> rate]
Frame(kind, fin, size, message) ==
    [kind |-> kind, fin |-> fin, size |-> size, message |-> message]

NoText == Text("", "none", "", NoRate)

MCFrames ==
    { Frame("text", TRUE, 1, Text("rawAudio", "none", "", 16000)),
      Frame("text", TRUE, 1, Text("rawAudio", "none", "", NoRate)),
      Frame("text", TRUE, 3, Text("streamAudio", "audio", "raw", 24000)),
      Frame("text", TRUE, 1, Text("streamAudio", "audio", "raw", 72000)),
      Frame("text", TRUE, 1, Text("streamAudio", "blank", "opus", NoRate)),
      Frame("text", TRUE, 1, Text("streamAudio", "audio", "wav", NoRate)),
      Frame("binary", TRUE, 1, NoText),
      Frame("binary", FALSE, 1, NoText),
      Frame("close", TRUE, 1, NoText) }
=============================================================================
