---------------------------- MODULE ValidateScore ----------------------------
(***************************************************************************)
(* The scoring of one validator report in handleValidateResult, as an     *)
(* operator, and the handler as a loop over the reports it is given.      *)
(*                                                                         *)
(* A report names the device's answer: is_cancel, is_timeout, the cids it *)
(* returned and random_count.  The scheduler side holds the device's fid  *)
(* -> cid map (GetBlocksFID, which may fail), the device's max fid and    *)
(* the stream of the round's seeded RNG, which is abstracted to any       *)
(* sequence of draws: the scoring must be right whatever the seed gives.  *)
(***************************************************************************)
EXTENDS Naturals, Sequences, FiniteSets

CONSTANTS
    CidStrings,     \* the cid strings a report or the db may hold
    HashOf,         \* CIDString2HashString: cid string -> hash, or BadCid
    BadCid,         \* the conversion error
    MaxCids,        \* bound on the length of a report's cid list
    MaxCount,       \* bound on random_count
    MaxFid          \* bound on the db's fids; the cached max fid may be one past

ASSUME HashOf \in [CidStrings -> (CidStrings \cup {BadCid})]
ASSUME {MaxCids, MaxCount, MaxFid} \subseteq Nat

Fids == 1..MaxFid
NoCid == "none"     \* cacheInfos[fid] == "": no block at that fid

Reports == [isCancel : BOOLEAN, isTimeout : BOOLEAN,
            cids : UNION {[1..n -> CidStrings] : n \in 0..MaxCids},
            randomCount : 0..MaxCount]

(* What the db and the RNG give the handler for one report.              *)
Contexts == [queryErr : BOOLEAN,
             fidMap : [Fids -> CidStrings \cup {NoCid}],
             maxFid : 0..(MaxFid + 1),
             draws : [1..MaxCount -> 0..MaxFid]]

Outcomes == {"cancel", "timeout", "fail", "other", "success", "panic"}

(* getRandNum: r.Intn(max) when max > 0, else max.  A draw outside       *)
(* [0, max) cannot come from Intn and is folded into range.              *)
GetRandNum(max, draw) == IF max > 0 THEN draw % max ELSE max

(* compareCid: both strings convert to a hash and the hashes are equal.  *)
CompareCid(c1, c2) ==
    /\ HashOf[c1] # BadCid /\ HashOf[c2] # BadCid
    /\ HashOf[c1] = HashOf[c2]

(* The fid drawn for the index-th comparison (index counts from 0).      *)
FidAt(ctx, index) == GetRandNum(ctx.maxFid, ctx.draws[index + 1]) + 1

(* cacheInfos[fid]: fids the db does not have read as "".                *)
DbCid(ctx, fid) == IF fid \in Fids THEN ctx.fidMap[fid] ELSE NoCid

(* Mutant: a matching cid ends the loop with success (a return where    *)
(* the code continues), so later draws are never compared.               *)
RECURSIVE ScoreLoopStopsAtMatch(_, _, _)
ScoreLoopStopsAtMatch(rep, ctx, index) ==
    IF index >= rep.randomCount THEN "success"
    ELSE IF index >= Len(rep.cids) THEN "panic"
    ELSE LET cid == DbCid(ctx, FidAt(ctx, index)) IN
         IF cid = NoCid THEN ScoreLoopStopsAtMatch(rep, ctx, index + 1)
         ELSE IF ~CompareCid(cid, rep.cids[index + 1]) THEN "fail"
         ELSE "success"

(* The for loop over index in [0, random_count): Cids[index] is read    *)
(* before the db lookup, so an index past the end of Cids panics.        *)
RECURSIVE ScoreLoop(_, _, _)
ScoreLoop(rep, ctx, index) ==
    IF index >= rep.randomCount THEN "success"
    ELSE IF index >= Len(rep.cids) THEN "panic"
    ELSE LET cid == DbCid(ctx, FidAt(ctx, index)) IN
         IF cid = NoCid THEN ScoreLoop(rep, ctx, index + 1)
         ELSE IF ~CompareCid(cid, rep.cids[index + 1]) THEN "fail"
         ELSE ScoreLoop(rep, ctx, index + 1)

(* handleValidateResult after the round check, by the status it writes.  *)
(* With GetBlocksFID returning no error and an empty map, the message is *)
(* built from err.Error() on a nil error, which panics.                  *)
Score(rep, ctx) ==
    IF rep.isCancel THEN "cancel"
    ELSE IF rep.isTimeout THEN "timeout"
    ELSE IF Len(rep.cids) <= 0 \/ rep.randomCount <= 0 THEN "fail"
    ELSE IF ctx.queryErr THEN "other"
    ELSE IF \A f \in Fids : ctx.fidMap[f] = NoCid THEN "panic"
    ELSE ScoreLoop(rep, ctx, 0)

-----------------------------------------------------------------------------
(* Reference definitions.                                                *)

(* The indices whose drawn fid has a block in the db.                    *)
Checked(rep, ctx) ==
    {i \in 0..(rep.randomCount - 1) : DbCid(ctx, FidAt(ctx, i)) # NoCid}

Mismatch(rep, ctx, i) ==
    ~CompareCid(DbCid(ctx, FidAt(ctx, i)), rep.cids[i + 1])

(* The scoring of spec section 4.E, phase 5, with the boundary cases of  *)
(* section 8: draws without a block are skipped, and a report none of    *)
(* whose draws was checked fails ("no cids checked").                    *)
SpecScore(rep, ctx) ==
    IF rep.isCancel THEN "cancel"
    ELSE IF rep.isTimeout THEN "timeout"
    ELSE IF Len(rep.cids) = 0 \/ rep.randomCount = 0 THEN "fail"
    ELSE IF ctx.queryErr THEN "other"
    ELSE IF Checked(rep, ctx) = {} THEN "fail"
    ELSE IF \E i \in Checked(rep, ctx) : Mismatch(rep, ctx, i) THEN "fail"
    ELSE "success"

(* Reports the spec gives a meaning to: one cid per comparison.          *)
WellFormed(rep) == rep.randomCount <= Len(rep.cids)

-----------------------------------------------------------------------------
VARIABLES
    rep,        \* the report being handled
    ctx,        \* what the db and the RNG give for it
    status      \* the status written, or "pending"

vars == <<rep, ctx, status>>

TypeOK ==
    /\ rep \in Reports
    /\ ctx \in Contexts
    /\ status \in Outcomes \cup {"pending"}

Init ==
    /\ rep \in Reports
    /\ ctx \in Contexts
    /\ status = "pending"

(* handleValidateResult scores the report.                               *)
HandleReport ==
    /\ status = "pending"
    /\ status' = Score(rep, ctx)
    /\ UNCHANGED <<rep, ctx>>

(* Each report is scored once; the reports are independent of one       *)
(* another (a fresh RNG from the round's seed, no state kept between     *)
(* them), so a behaviour of one report covers every report.              *)
Next == HandleReport

Spec == Init /\ [][Next]_vars

-----------------------------------------------------------------------------
(* On every well-formed report where at least one draw hits a block, the *)
(* handler writes what the spec's scoring says: cancel and timeout win,  *)
(* a mismatch at a checked index fails, otherwise success.               *)
AgreesWithSpecWhenChecked ==
    (/\ status # "pending" /\ WellFormed(rep)
     /\ ~ctx.queryErr => Checked(rep, ctx) # {})
        => status = SpecScore(rep, ctx)

=============================================================================
