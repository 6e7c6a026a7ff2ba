----------------------------- MODULE PacketFeed -----------------------------
(***************************************************************************)
(* What a packet socket promises (README.md, src/src/server.rs): while a   *)
(* game is attached every connection shows, one after the other, some of   *)
(* the packets published while it was open, each one whole; while no game  *)
(* is attached no new packet is taken for anybody.                         *)
(***************************************************************************)

CONSTANTS
  Clients,  (* the connections                                             *)
  Packets,  (* the payloads                                                *)
  First,    (* the payload before the first poll                           *)
  None      (* no payload: nothing shown, nothing on its way               *)

VARIABLES
  current,  (* what is published now                                       *)
  pending,  (* the payload on its way to each connection                   *)
  view      (* the payload each connection shows                           *)

vars == <<current, pending, view>>

Published == [packet : Packets, attached : BOOLEAN]

Nothing == [c \in Clients |-> None]

Init ==
  /\ current = [packet |-> First, attached |-> TRUE]
  /\ pending = Nothing
  /\ view = Nothing

Publish ==
  /\ current' \in Published
  /\ UNCHANGED <<pending, view>>

(* A packet is taken for a connection; what it takes is current then.      *)
Take(c) ==
  /\ current.attached
  /\ pending[c] = None
  /\ pending' = [pending EXCEPT ![c] = current.packet]
  /\ UNCHANGED <<current, view>>

Show(c) ==
  /\ pending[c] # None
  /\ view' = [view EXCEPT ![c] = pending[c]]
  /\ pending' = [pending EXCEPT ![c] = None]
  /\ UNCHANGED current

(* The connection ends; another one may take its place.                    *)
Leave(c) ==
  /\ pending' = [pending EXCEPT ![c] = None]
  /\ view' = [view EXCEPT ![c] = None]
  /\ UNCHANGED current

(* The process is replaced by a new one.                                   *)
Restart ==
  /\ current' = [packet |-> First, attached |-> TRUE]
  /\ pending' = Nothing
  /\ view' = Nothing

Next ==
  \/ Publish
  \/ \E c \in Clients : Take(c) \/ Show(c) \/ Leave(c)
  \/ Restart

Spec == Init /\ [][Next]_vars
=============================================================================
