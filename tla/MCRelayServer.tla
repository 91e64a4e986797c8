--------------------------- MODULE MCRelayServer ---------------------------
(* Small instances of RelayServer for TLC. *)
EXTENDS RelayServer, TLC

(* Two spellings of one name. *)
MCNames == {"ann", "ANN"}
MCLower == [n \in MCNames |-> "ann"]

(* A single one, where names do not matter. *)
MCName == {"ann"}
MCLowerName == [n \in MCName |-> n]

Symmetry == Permutations(Clients) \cup Permutations(Channels) \cup Permutations(Slots)
              \cup Permutations(ChannelNames)
============================================================================
