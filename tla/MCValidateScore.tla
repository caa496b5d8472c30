--------------------------- MODULE MCValidateScore ---------------------------
EXTENDS ValidateScore

(* Two encodings of one block ("a" and "A": a CIDv0 and a CIDv1 of the   *)
(* same multihash), a second block and a string that is no cid.          *)
MCCidStrings == {"a", "A", "b", "x"}
MCHashOf == [c \in MCCidStrings |-> CASE c \in {"a", "A"} -> "a"
                                      [] c = "b" -> "b"
                                      [] c = "x" -> "bad"]
=============================================================================
