---------------------------- MODULE AbstractIndex ----------------------------
(***************************************************************************)
(* What a layered index promises its users (src/layered.rs, module docs): *)
(* one logical map from keys to values, updated by pushes and full         *)
(* reindexes, and readers that answer from the map as it was when they     *)
(* were opened - or fail with a storage error, once the files of that      *)
(* version have been deleted.  Base segments, deltas, tombstones, merges   *)
(* and garbage collection do not exist at this level.                      *)
(***************************************************************************)
CONSTANTS
    Key, Value,
    NoValue,     \* the key is not in the map
    Reader,
    Pending,     \* a reader that has not answered
    StorageError

VARIABLES
    db,      \* [Key -> Value \cup {NoValue}], the logical map
    view,    \* [Reader -> db], the version each reader was opened on
    asked,   \* [Reader -> Key], the key each reader was last asked for
    answer   \* [Reader -> answer], what it answered

vars == <<db, view, asked, answer>>

Map == [Key -> Value \cup {NoValue}]

Init ==
    /\ db \in Map
    /\ view \in [Reader -> Map]
    /\ asked \in [Reader -> Key]
    /\ answer = [r \in Reader |-> Pending]

\* An incremental push changes some keys; NoValue deletes.
Push ==
    /\ \E keys \in SUBSET Key : \E changes \in [keys -> Value \cup {NoValue}] :
         db' = [k \in Key |-> IF k \in keys THEN changes[k] ELSE db[k]]
    /\ UNCHANGED <<view, asked, answer>>

\* A full reindex replaces the whole map.
Reindex ==
    /\ db' \in Map
    /\ UNCHANGED <<view, asked, answer>>

Open(r) ==
    /\ view' = [view EXCEPT ![r] = db]
    /\ answer' = [answer EXCEPT ![r] = Pending]
    /\ UNCHANGED <<db, asked>>

\* The caller gives up a reader that failed, or drops one.
Reset(r) ==
    /\ answer' = [answer EXCEPT ![r] = Pending]
    /\ UNCHANGED <<db, view, asked>>

Ask(r, k) ==
    /\ asked' = [asked EXCEPT ![r] = k]
    /\ answer' = [answer EXCEPT ![r] = Pending]
    /\ UNCHANGED <<db, view>>

Answer(r) ==
    /\ answer[r] = Pending
    /\ answer' \in {[answer EXCEPT ![r] = a] : a \in {view[r][asked[r]], StorageError}}
    /\ UNCHANGED <<db, view, asked>>

Next ==
    \/ Push
    \/ Reindex
    \/ \E r \in Reader : Open(r) \/ Reset(r) \/ Answer(r)
    \/ \E r \in Reader, k \in Key : Ask(r, k)

Spec == Init /\ [][Next]_vars
=============================================================================
