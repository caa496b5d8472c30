----------------------------- MODULE RocksStore -----------------------------
(***************************************************************************)
(* The rocksdb block store of a node (package stores, rocksdb type).      *)
(*                                                                         *)
(* The store keeps one process-wide *gorocksdb.DB and its read and write  *)
(* options in package variables.  Every method calls getRocksDB, which    *)
(* opens the db on first use: if db == nil it calls openRocksDB, assigns  *)
(* db, and only then runs newOptions.  Nothing guards this: the store's   *)
(* callers (the node's block download server and its cache fetcher, not   *)
(* in this source tree) run concurrently, as any number of goroutines     *)
(* calling any method with any key.                                       *)
(*                                                                         *)
(* Put and Delete call rdb.Put / rdb.Delete with writeOptions, Get, Has,  *)
(* GetSize and GetReader call rdb.Get with readOptions.  Get and          *)
(* GetReader ("get" here) defer slice.Free() and return slice.Data(),     *)
(* which gorocksdb (tecbot) builds over the slice's C buffer without a   *)
(* copy: the caller reads the bytes after they are freed.  Has and        *)
(* GetSize ("has") return a bool or an int taken from the slice.  A nil   *)
(* options pointer is dereferenced by gorocksdb and panics.  log.Fatal    *)
(* ends the process.  The process may also be killed, or the machine may  *)
(* lose power; writeOptions.SetSync(true) makes each write reach the disk *)
(* before it returns.                                                     *)
(***************************************************************************)
EXTENDS Naturals

CONSTANTS
    Callers,    \* goroutines calling the store
    Keys,
    Vals,
    Absent,
    NoRequest   \* KVStore's "no request pending"

Ops == {"put", "delete", "get", "has"}
Pcs == {"idle", "check", "open", "options", "exec", "done", "panicked"}
Calls == [op : Ops, key : Keys, val : Vals, pc : Pcs]
Exits == {"none", "lockFatal", "ioFatal", "panic", "killed", "power"}

VARIABLES
    db,         \* the package variable db: "nil" or "open"
    opts,       \* writeOptions / readOptions: "nil", or the sync mode set
    lock,       \* the process holds the db directory's LOCK (an OpenDb succeeded)
    mem,        \* contents as the open db (memtable and WAL) serves them
    disk,       \* contents synced to disk, what survives a power loss
    call,       \* each goroutine's call and where it is in it
    answer,     \* the bytes each goroutine read from what its last get returned
    lastExit    \* why the process last ended (its exit status)

vars == <<db, opts, lock, mem, disk, call, answer, lastExit>>

Store == [Keys -> Vals \cup {Absent}]

TypeOK ==
    /\ db \in {"nil", "open"}
    /\ opts \in {"nil", "sync"}
    /\ lock \in BOOLEAN
    /\ mem \in Store /\ disk \in Store
    /\ call \in [Callers -> Calls]
    /\ answer \in [Callers -> Vals \cup {Absent}]
    /\ lastExit \in Exits

IdleCall == [op |-> "get", key |-> CHOOSE k \in Keys : TRUE,
             val |-> CHOOSE v \in Vals : TRUE, pc |-> "idle"]

Init ==
    /\ db = "nil" /\ opts = "nil" /\ lock = FALSE
    /\ mem = [k \in Keys |-> Absent] /\ disk = mem
    /\ call = [c \in Callers |-> IdleCall]
    /\ answer = [c \in Callers |-> Absent]
    /\ lastExit = "none"

-----------------------------------------------------------------------------
(* The process ends: the package variables and every call in flight are  *)
(* gone, the LOCK is released, and the next process starts with db ==    *)
(* nil.  A process exit keeps what the db wrote to its WAL; a power loss *)
(* keeps only what was synced.                                           *)
Exit(reason, survives) ==
    /\ db' = "nil" /\ opts' = "nil" /\ lock' = FALSE
    /\ mem' = survives
    /\ call' = [c \in Callers |-> IdleCall]
    /\ lastExit' = reason
    /\ UNCHANGED answer

(* A goroutine calls Put, Delete or one of the reads of the store.      *)
Call(c, op, k, v) ==
    /\ call[c].pc \in {"idle", "done", "panicked"}
    /\ call' = [call EXCEPT ![c] = [op |-> op, key |-> k, val |-> v, pc |-> "check"]]
    /\ UNCHANGED <<db, opts, lock, mem, disk, answer, lastExit>>

(* getRocksDB: if db == nil, open it; otherwise use it.                  *)
GetRocksDB(c) ==
    /\ call[c].pc = "check"
    /\ call' = [call EXCEPT ![c].pc = IF db = "nil" THEN "open" ELSE "exec"]
    /\ UNCHANGED <<db, opts, lock, mem, disk, answer, lastExit>>

(* openRocksDB and the assignment db = rdb.  gorocksdb.OpenDb fails when *)
(* the LOCK is already held (a concurrent first call opened the db) or   *)
(* on an I/O error, and log.Fatalln then ends the process.               *)
OpenRocksDB(c) ==
    /\ call[c].pc = "open"
    /\ \/ /\ ~lock
          /\ lock' = TRUE /\ db' = "open"
          /\ call' = [call EXCEPT ![c].pc = "options"]
          /\ UNCHANGED <<opts, mem, answer, lastExit>>
       \/ lock /\ Exit("lockFatal", mem)
       \/ Exit("ioFatal", mem)
    /\ UNCHANGED disk

(* newOptions, after db was assigned: synced writes, reads that do not   *)
(* fill the block cache.                                                  *)
NewOptions(c) ==
    /\ call[c].pc = "options"
    /\ opts' = "sync"
    /\ call' = [call EXCEPT ![c].pc = "exec"]
    /\ UNCHANGED <<db, lock, mem, disk, answer, lastExit>>

(* The write a Put or Delete makes, when rocksdb accepts it.             *)
Written(c) == [mem EXCEPT ![call[c].key] =
                   IF call[c].op = "put" THEN call[c].val ELSE Absent]

(* What a caller reads from the slice Get returned for key k: a missing *)
(* key returns ErrNotFound before the defer; otherwise the C buffer is   *)
(* freed on return and holds whatever the allocator put there since, the *)
(* value or the bytes of another block.                                   *)
ReadAfterFree(k) == IF mem[k] = Absent THEN {Absent} ELSE Vals

(* rdb.Put / rdb.Delete / rdb.Get with the package options.  With nil    *)
(* options the call panics: a recovered panic fails the call, an         *)
(* unrecovered one ends the process.  Otherwise a write may fail and     *)
(* return its error, and a synced write is on disk when it returns.      *)
Exec(c) ==
    /\ call[c].pc = "exec"
    /\ \/ /\ opts = "nil"
          /\ \/ /\ call' = [call EXCEPT ![c].pc = "panicked"]
                /\ UNCHANGED <<db, opts, lock, mem, disk, answer, lastExit>>
             \/ /\ Exit("panic", mem)
                /\ UNCHANGED disk
       \/ /\ opts # "nil"
          /\ call' = [call EXCEPT ![c].pc = "done"]
          /\ \E read \in ReadAfterFree(call[c].key) :
               answer' = IF call[c].op = "get"
                         THEN [answer EXCEPT ![c] = read] ELSE answer
          /\ \E writeOk \in BOOLEAN :
               IF call[c].op \in {"put", "delete"} /\ writeOk
               THEN /\ mem' = Written(c)
                    /\ disk' = Written(c)
               ELSE UNCHANGED <<mem, disk>>
          /\ UNCHANGED <<db, opts, lock, lastExit>>

(* The process is killed: the WAL it wrote is replayed on the next open. *)
Killed == Exit("killed", mem) /\ UNCHANGED disk

(* The machine loses power: unsynced writes are lost.                    *)
PowerLoss == Exit("power", disk) /\ UNCHANGED disk

Next ==
    \/ \E c \in Callers :
         \/ \E op \in Ops, k \in Keys, v \in Vals : Call(c, op, k, v)
         \/ GetRocksDB(c) \/ OpenRocksDB(c) \/ NewOptions(c) \/ Exec(c)
    \/ Killed
    \/ PowerLoss

Spec == Init /\ [][Next]_vars

-----------------------------------------------------------------------------
(* A call is pending from its entry until it returns, panics or its     *)
(* process ends.                                                          *)
Pending(c) ==
    IF call[c].pc \in {"check", "open", "options", "exec"}
    THEN [op |-> call[c].op, key |-> call[c].key, val |-> call[c].val]
    ELSE NoRequest

(* The store implements KVStore, the BlockStore contract: each call     *)
(* takes effect at most once while it is pending, a Get returns the      *)
(* block the key holds, and a kill, a power loss or a restart never      *)
(* changes the contents (writeOptions.SetSync(true) makes a Put or       *)
(* Delete that returned survive a power loss).                           *)
KV == INSTANCE KVStore WITH Clients <- Callers, kv <- mem,
                           pending <- [c \in Callers |-> Pending(c)]

KVRefinement == KV!Spec

(* getRocksDB initialises the store once and completely before it is    *)
(* used: no call panics on options that newOptions has not set yet, and  *)
(* no second OpenDb of a concurrent first call ends the process.         *)
LazyInitSafe ==
    /\ lastExit \notin {"lockFatal", "panic"}
    /\ \A c \in Callers : call[c].pc # "panicked"

=============================================================================
