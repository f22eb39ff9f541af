----------------------------- MODULE UdpService -----------------------------
(***************************************************************************)
(* What the UDP service of the meter promises its hosts, without tasks,      *)
(* queue, sockets or buffers.  A request that is taken into service while no *)
(* other is leaves it with exactly one answer handed to the network, made    *)
(* for that request and addressed to the host that asked, or without one,    *)
(* and the answer does not change while it is being sent.  A request that    *)
(* overtakes another one mixes the two: from then on nothing is promised     *)
(* until a request finds the service free again.  UdpLink implements it.     *)
(***************************************************************************)
EXTENDS Integers

CONSTANTS
  Requests,         \* records with the fields from and kind
  WriteAckLen, ReadAckLen,  \* lengths of the answers to the two commands
  U16,              \* bound on a length
  NoData,           \* the contents of the answer to what is not a command
  None,             \* no request, no answer
  Lossy             \* may a command be left without an answer?

VARIABLES
  asked,            \* the request in service
  reply,            \* the answer being sent
  mixed             \* has the request in service overtaken another one?

vars == <<asked, reply, mixed>>

IsCommand(r) == r.kind \in {"write", "read"}

\* The answers to r.  A datagram that is no command is answered with cleared
\* bytes, as many as the answer before it had, if that was not the first.
Replies(r) ==
  [to   : {r.from},
   data : IF IsCommand(r) THEN {r} ELSE {NoData},
   len  : CASE r.kind = "write" -> {WriteAckLen}
            [] r.kind = "read"  -> {ReadAckLen}
            [] OTHER            -> 1..(U16 - 1)]

Init == asked = None /\ reply = None /\ mixed = FALSE

Take ==
  /\ asked = None
  /\ reply = None
  /\ asked' \in Requests
  /\ mixed' = FALSE
  /\ UNCHANGED reply

\* The new request takes the place of the one in service; of an answer that is
\* being sent it may replace the bytes, never the address or the length.
Overtake ==
  /\ asked # None \/ reply # None
  /\ asked' \in Requests
  /\ mixed' = TRUE
  /\ \/ UNCHANGED reply
     \/ /\ reply # None
        /\ \E b \in Requests \cup {NoData} : reply' = [reply EXCEPT !.data = b]

Answer ==
  /\ asked # None
  /\ reply = None
  /\ reply' \in Replies(asked)
  /\ asked' = None
  /\ UNCHANGED mixed

Drop ==
  /\ asked # None
  /\ Lossy \/ ~IsCommand(asked)
  /\ asked' = None
  /\ UNCHANGED <<reply, mixed>>

Sent ==
  /\ reply # None
  /\ reply' = None
  /\ UNCHANGED <<asked, mixed>>

\* Nothing is promised of requests that were mixed, but that they stay mixed.
Unpromised == mixed /\ UNCHANGED mixed

Next == Take \/ Overtake \/ Answer \/ Drop \/ Sent \/ Unpromised

Spec == Init /\ [][Next]_vars

\* A request does not stay in service for ever, nor an answer in the network
\* layer.
Prompt == (asked # None ~> asked = None) /\ (reply # None ~> reply = None)

PromptSpec == Spec /\ Prompt
=============================================================================
