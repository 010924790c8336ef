----------------------------- MODULE OutboxIntent -----------------------------
(***************************************************************************)
(* What the flag outbox promises for each flag of a message.  A change the *)
(* user makes is accepted, waits until the server has it, and is done; its *)
(* value stands from the acceptance on, and the server's flag is written   *)
(* with that value only.  A flag is open while a change of it is not       *)
(* accepted yet, or once the outbox has an excuse: a race with data the    *)
(* sync task had read before, another device, the end of the retry budget. *)
(*                                                                         *)
(* FlagOutbox implements it.                                               *)
(***************************************************************************)
EXTENDS Naturals

CONSTANT Key        \* flags of the stored messages

VARIABLES phase,    \* of each: "open", "waiting" or "done"
          wish,     \* the value the user is shown and the server is to have
          server    \* the value the server has

intent == <<phase, wish, server>>

Init ==
    /\ phase = [k \in Key |-> "done"]
    /\ wish \in [Key -> BOOLEAN] /\ server = wish

\* The promise is taken back; the flag may be anything while it is open.
Excuse(k) == phase'[k] = "open"

Accept(k) ==
    /\ phase[k] = "open" /\ phase'[k] = "waiting"
    /\ wish'[k] \in BOOLEAN /\ server'[k] = server[k]

Deliver(k) ==
    /\ phase[k] = "waiting" /\ phase'[k] = "waiting"
    /\ wish'[k] = wish[k] /\ server'[k] = wish[k]

Confirm(k) ==
    /\ phase[k] = "waiting" /\ server[k] = wish[k]
    /\ phase'[k] = "done" /\ wish'[k] = wish[k] /\ server'[k] = server[k]

Rest(k) == phase'[k] = phase[k] /\ wish'[k] = wish[k] /\ server'[k] = server[k]

\* A step of the outbox may be one of several flags, a bulk action for one.
Next == \A k \in Key : Excuse(k) \/ Accept(k) \/ Deliver(k) \/ Confirm(k) \/ Rest(k)

Spec == Init /\ [][Next]_intent
=============================================================================
