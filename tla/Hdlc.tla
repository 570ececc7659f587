--------------------------------- MODULE Hdlc ---------------------------------
(***************************************************************************)
(* The HDLC vocabulary of openaisg/hdlc.py that the link layer works with: *)
(* modulo sequence numbers and classified frames.  A frame that reaches a  *)
(* station with a bad FCS is skipped by hdlc.Deframer, so here it is simply *)
(* never received; what is left of a good frame is the kind of its control *)
(* byte, N(S), N(R), the P bit and the layer-7 payload.                    *)
(***************************************************************************)
EXTENDS Naturals, Sequences

CONSTANTS Modulus,   \* sequence numbers are counted modulo this; & 7 in the code
          Procs,    \* RETAP procedure codes a request may carry
          Alarm,    \* the procedure code of an AlarmIndication
          None      \* "nothing": no payload, no answer

ASSUME ModulusAssumption == Modulus \in Nat /\ Modulus > 1
ASSUME ProcsAssumption  == Alarm \notin Procs
SeqNo == 0 .. Modulus - 1
SuccUnmasked(n) == n + 1                   \* variant: the & 7 forgotten
Succ(n) == (n + 1) % Modulus

\* A layer-7 payload: its procedure code (byte 0) and the identity of the
\* request it belongs to, or of the alarm it reports.  The identity is not on
\* the wire: no action of the primary reads it.
Payload == [proc : Procs \cup {Alarm}, id : Nat]

ASSUME NoneAssumption   == None \notin Payload

IKind  == "I"
SKinds == {"RR", "RNR", "REJ"}
UKinds == {"DM", "FRMR"}

Frame == [kind : {IKind}, ns : SeqNo, nr : SeqNo, poll : {TRUE}, pl : Payload]
   \cup [kind : SKinds, ns : {0}, nr : SeqNo, poll : BOOLEAN, pl : {None}]
   \cup [kind : UKinds, ns : {0}, nr : {0}, poll : {TRUE}, pl : {None}]

IFrame(ns, nr, pl)     == [kind |-> IKind, ns |-> ns, nr |-> nr, poll |-> TRUE, pl |-> pl]
SFrame(kind, nr, poll) == [kind |-> kind, ns |-> 0, nr |-> nr, poll |-> poll, pl |-> None]
UFrame(kind)           == [kind |-> kind, ns |-> 0, nr |-> 0, poll |-> TRUE, pl |-> None]
===============================================================================
