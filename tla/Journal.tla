------------------------------ MODULE Journal ------------------------------
(***************************************************************************)
(* The OTA v3 checkpoint journal of keemash_ota_v3_checkpoint.c: two NVS   *)
(* blobs, "v3a" and "v3b".  A record carries a generation; a write goes to *)
(* the key of its generation's parity, a load takes the valid record with  *)
(* the newer generation, and a tombstone stands for "no checkpoint".       *)
(*                                                                         *)
(* A checkpoint is a model value; the bounds a record is checked for are   *)
(* taken to hold, as save() checks the same ones.  NVS is external: a blob *)
(* write that is cut off by a reset or an error before the commit leaves   *)
(* the old blob, the new one, or one whose CRC is wrong (Blank).           *)
(***************************************************************************)
EXTENDS Integers

CONSTANTS
  Checkpoints,     \* what is saved
  Cleared,         \* the tombstone, and the answer ESP_ERR_NOT_FOUND
  Nothing,         \* no write is under way
  Modulus,         \* 2^32: generations are 1 .. Modulus - 1
  FirstGeneration, \* the newest generation in NVS at the start, 0 if NVS is empty
  MaxGeneration    \* bound: writes stop at this generation, before the wrap

VARIABLES
  nvs,       \* the two blobs
  writing,   \* the record write_record() is writing, or Nothing
  result     \* how the last write ended

journalVars == <<nvs, writing, result>>

Keys == {"v3a", "v3b"}
Values == Checkpoints \cup {Cleared}
Record == [valid: {TRUE}, generation: 1 .. Modulus - 1, content: Values]
Blank == [valid |-> FALSE]

ASSUME JournalAssumption ==
  /\ Cleared \notin Checkpoints
  /\ Nothing \notin Values \cup Record
  /\ Modulus \in Nat /\ Modulus > 3 /\ Modulus % 2 = 0
  /\ FirstGeneration \in 0 .. Modulus - 1 /\ FirstGeneration # 1
  /\ MaxGeneration \in 1 .. Modulus - 1 /\ FirstGeneration <= MaxGeneration

Key(generation) == IF generation % 2 = 1 THEN "v3a" ELSE "v3b"

\* (int32_t)(a - b) > 0
Newer(a, b) == (a - b) % Modulus \in 1 .. (Modulus \div 2) - 1

\* latest_record(): Blank if there is none.
Latest ==
  LET a == nvs["v3a"]
      b == nvs["v3b"]
  IN  IF b.valid /\ (~a.valid \/ Newer(b.generation, a.generation)) THEN b ELSE a

\* keemash_ota_v3_checkpoint_load()
Load == IF Latest.valid THEN Latest.content ELSE Cleared

\* Mutant: the generation of a reused record is not advanced.
NextGeneration_Same ==
  IF Latest.valid THEN Latest.generation ELSE 1

\* Generation 0 is skipped.
NextGeneration ==
  LET next == (Latest.generation + 1) % Modulus
  IN  IF ~Latest.valid \/ next = 0 THEN 1 ELSE next

JournalInit ==
  /\ nvs = IF FirstGeneration = 0 THEN [k \in Keys |-> Blank]
           ELSE [k \in Keys |->
                   [valid |-> TRUE, content |-> Cleared,
                    generation |-> IF k = Key(FirstGeneration) THEN FirstGeneration
                                   ELSE FirstGeneration - 1]]
  /\ writing = Nothing
  /\ result = "none"

\* write_record() up to nvs_set_blob(): save() with a checkpoint, clear() with the
\* tombstone.
Begin(v) ==
  /\ writing = Nothing
  /\ Latest.valid => Latest.generation # MaxGeneration
  /\ writing' = [valid |-> TRUE, generation |-> NextGeneration, content |-> v]
  /\ UNCHANGED <<nvs, result>>

\* Mutant: success is reported without looking at the result of nvs_set_blob().
Commit_Always ==
  /\ writing # Nothing
  /\ nvs' \in {nvs, [nvs EXCEPT ![Key(writing.generation)] = writing]}
  /\ writing' = Nothing
  /\ result' = "ok"

\* nvs_set_blob() and nvs_commit() succeed.
Commit ==
  /\ writing # Nothing
  /\ nvs' = [nvs EXCEPT ![Key(writing.generation)] = writing]
  /\ writing' = Nothing
  /\ result' = "ok"

\* A reset, or an error of nvs_set_blob() or nvs_commit().
CutOff ==
  /\ writing # Nothing
  /\ \E blob \in {nvs[Key(writing.generation)], writing, Blank} :
       nvs' = [nvs EXCEPT ![Key(writing.generation)] = blob]
  /\ writing' = Nothing
  /\ result' = "failed"

JournalNext == (\E v \in Values : Begin(v)) \/ Commit \/ CutOff

JournalSpec == JournalInit /\ [][JournalNext]_journalVars

----------------------------------------------------------------------------
(* Properties *)

\* A blob is a record with a generation other than 0, or not valid.
BlobTypes ==
  /\ nvs \in [Keys -> Record \cup {Blank}]
  /\ writing \in Record \cup {Nothing}
  /\ result \in {"none", "ok", "failed"}

\* The journal is a register that is written atomically: whatever a reset leaves
\* of a write, a load gives the value before it or the value written, never an
\* older one (checkpoint.h: "A newer tombstone prevents an old checkpoint from
\* being resumed").
Register ==
  INSTANCE AtomicRegister WITH
    value <- Load,
    writing <- IF writing = Nothing THEN Nothing ELSE writing.content,
    Idle <- Nothing,
    Initial <- Cleared
IsRegister == Register!Spec

\* docs/ota-v3.md: "alternating NVS blobs".  A write never touches the blob that
\* holds the newest record, so that a torn write leaves that one.
Alternates ==
  writing # Nothing /\ Latest.valid =>
    Key(writing.generation) # Key(Latest.generation)

\* A write under way, torn or not, leaves the newest record alone.
BlobsSound == BlobTypes /\ Alternates
=============================================================================
