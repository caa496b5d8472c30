--------------------------- MODULE MCNodeRegistry ---------------------------
(***************************************************************************)
(* Two schedulers sharing the db, one device and one carfile: the     *)
(* properties are per device, so a second device adds no interleaving.  *)
(***************************************************************************)
EXTENDS NodeRegistry, TLC

CONSTANTS d1, s1, s2, h1

MCDevices == {d1}
MCServers == {s1, s2}
MCHashes == {h1}

(* The schedulers are interchangeable.                                   *)
ServerSymmetry == Permutations(MCServers)

=============================================================================
