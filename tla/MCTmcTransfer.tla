---------------------------- MODULE MCTmcTransfer ----------------------------
(* Instances of TmcTransfer for TLC: what the host may send. *)
EXTENDS TmcTransfer

Request(tags, sizes) ==
    [id : {"REQUEST"}, tag : tags, size : sizes, attr : {0}]
\* A command's size is that of its reply.
Replying(len) == [id |-> "COMMAND", tag |-> 1, size |-> len, attr |-> 0]
Rst == [id |-> "RST", tag |-> 1, size |-> 0, attr |-> 0]

\* Requests for a sample and for more than one hardware transfer; a command
\* with a reply and one with an empty reply; a reset.
PoliteMessages ==
    Request({1}, {56}) \union Request({2}, {18}) \union {Replying(10), Replying(0), Rst}

\* Also a request for less than a sample, one with transfer attributes, one
\* that a reply does not fit, and an unknown message.
AnyMessages ==
    Request({1, 2}, {20}) \union Request({2}, {17}) \union
    { Replying(30), Rst,
      [id |-> "REQUEST", tag |-> 2, size |-> 20, attr |-> 1],
      [id |-> "OTHER", tag |-> 1, size |-> 0, attr |-> 0] }
=============================================================================
