--------------------------- MODULE CommandContract ---------------------------
(***************************************************************************)
(* What the execution context promises about every command, told without   *)
(* gates, threads, repositories or events: it is proposed, it may be       *)
(* authorised, only an authorised command puts calls on the hardware, at   *)
(* most MaxSends of them and all in one go, and it ends either succeeded   *)
(* or closed and stays so.                                                 *)
(***************************************************************************)
EXTENDS Naturals

CONSTANTS
  Commands,
  MaxSends    \* calls of HardwareInterface.send one command may cause

VARIABLES
  phase,
  sent        \* number of calls on the hardware

contractVars == <<phase, sent>>

Phases ==
  {"absent", "proposed", "authorised", "inflight", "succeeded", "closed"}

ContractTypeOK ==
  /\ phase \in [Commands -> Phases]
  /\ sent \in [Commands -> 0..MaxSends]

ContractInit ==
  /\ phase = [c \in Commands |-> "absent"]
  /\ sent = [c \in Commands |-> 0]

Move(c, from, to) ==
  /\ phase[c] \in from
  /\ phase' = [phase EXCEPT ![c] = to]
  /\ UNCHANGED sent

Propose(c)   == Move(c, {"absent"}, "proposed")
Authorise(c) == Move(c, {"proposed"}, "authorised")
Start(c)     == Move(c, {"authorised"}, "inflight")
Succeed(c)   == sent[c] > 0 /\ Move(c, {"inflight"}, "succeeded")
Close(c)     == Move(c, {"proposed", "inflight"}, "closed")

CallHardware(c) ==
  /\ phase[c] = "inflight"
  /\ sent[c] < MaxSends
  /\ sent' = [sent EXCEPT ![c] = @ + 1]
  /\ UNCHANGED phase

ContractNext ==
  \E c \in Commands :
    \/ Propose(c) \/ Authorise(c) \/ Start(c)
    \/ CallHardware(c) \/ Succeed(c) \/ Close(c)

ContractSpec == ContractInit /\ [][ContractNext]_contractVars
=============================================================================
