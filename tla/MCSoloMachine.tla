---------------------------- MODULE MCSoloMachine ----------------------------
(* Clients k and j of one machine and one key, and client m of a faulty machine. *)
EXTENDS SoloMachine

First(sequence, key, diversifier) ==
  [sequence |-> sequence, key |-> key, diversifier |-> diversifier, timestamp |-> 1]

MCStart == [k |-> First(1, "K", "dk"), j |-> First(4, "K", "dj"), m |-> First(3, "M", "dm")]

MCMessages == [k |-> {[type |-> "PACKETCOMMITMENT"]},
               j |-> {[type |-> "CHANNEL"]},
               m |-> {[type |-> "CHANNEL"], [type |-> "PACKETCOMMITMENT"]}]

\* With a packet that the machine did not receive, for a run of client k alone.
MCTimeoutMessages == [k |-> {[type |-> "PACKETRECEIPTABSENCE"], [type |-> "CHANNEL"]}]

MCHeaders == [k |-> {[key |-> "L", diversifier |-> "dk"]},
              j |-> {[key |-> "K", diversifier |-> "ej"]},
              m |-> {}]

MCTimes == [k |-> {1, 2}, j |-> {1}, m |-> {1}]

MCMaxSequence == [k |-> 5, j |-> 5, m |-> 3]
=============================================================================
