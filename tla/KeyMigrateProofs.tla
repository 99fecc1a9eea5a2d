-------------------------- MODULE KeyMigrateProofs --------------------------
(***************************************************************************)
(* Theorems about module KeyMigrate for every set of keys and any number   *)
(* of writes and of requests under way: what A's tables and files are to   *)
(* each other, that a restart of A is atomic, and then where the last write *)
(* of a key is.                                                            *)
(***************************************************************************)
EXTENDS KeyMigrate, SequenceTheorems, TLAPS

(* most leaves need no arithmetic *)
USE Zenon

-----------------------------------------------------------------------------
(* The inductive invariant.  What a start of A would find in its files: *)
SavedState == IF statfile \in NodeState THEN statfile ELSE "NOT_STARTED"

Saved == [table |-> cfgfile, state |-> SavedState,
          keys |-> [k \in Key |-> IF in_migration(SavedState) THEN keyfile[k] ELSE None]]

(* While A runs its tables are those of its files, and it could be started from them. *)
FilesAgree ==
  /\ up = "running" =>
       /\ ~load_fails
       /\ table = cfgfile
       /\ state = SavedState
       /\ index = IF in_migration(state) THEN Recorded ELSE {}
  /\ up # "running" => \A k \in Key : asked[k] = "no"

(* A killed A that can be started finds one of the tables it may find. *)
Restartable ==
  up = "killed" /\ intact # {} /\ ~load_fails => Saved \in intact

(* Only the last request that was sent is awaited, and none once there is an answer. *)
Awaited(k) ==
  \A i \in DOMAIN wire[k] : wire[k][i].awaited => i = Len(wire[k]) /\ asked[k] = "sent"

RouteInv == TypeOK /\ FilesAgree /\ Restartable /\ \A k \in Key : Awaited(k)
-----------------------------------------------------------------------------
(* What sequences of requests under way are after one is added or taken. *)
LEMMA AppendFacts ==
  ASSUME NEW q \in Seq(Message), NEW m \in Message
  PROVE  /\ Append(q, m) \in Seq(Message)
         /\ Append(q, m) # << >>
         /\ Len(Append(q, m)) = Len(q) + 1
         /\ DOMAIN Append(q, m) = 1 .. Len(q) + 1
         /\ \A i \in 1 .. Len(q) : Append(q, m)[i] = q[i]
         /\ Append(q, m)[Len(q) + 1] = m
  BY SMT

(* What is under way after B has taken a request, or the network has lost it. *)
LEMMA RemovedFacts ==
  ASSUME NEW q \in Seq(Message), NEW i \in DOMAIN q
  PROVE  /\ q # << >> /\ Len(q) \in Nat \ {0} /\ i \in 1 .. Len(q) /\ q[i] \in Message
         /\ Taken(q, i) \in Seq(Message)
         /\ Len(Taken(q, i)) = Len(q) - 1
         /\ DOMAIN Taken(q, i) = 1 .. Len(q) - 1
         /\ \A j \in 1 .. Len(q) - 1 :
              Taken(q, i)[j] = IF j < i THEN q[j] ELSE q[j + 1]
<1>1. q # << >> /\ Len(q) \in Nat \ {0} /\ i \in 1 .. Len(q) /\ q[i] \in Message
  BY SMT
<1>2. \A j \in 1 .. Len(q) - 1 : (IF j < i THEN q[j] ELSE q[j + 1]) \in Message
  BY <1>1, SMT
<1>3. Len(q) - 1 \in Nat /\ Taken(q, i) \in [1 .. Len(q) - 1 -> Message]
  BY <1>1, <1>2, SMT DEF Taken
<1>4. Taken(q, i) \in Seq(Message) /\ Len(Taken(q, i)) = Len(q) - 1
  BY <1>3, SeqDef, LenProperties, SMT
<1> QED BY <1>1, <1>3, <1>4 DEF Taken

(* Requests nobody waits for any more have the same rows. *)
LEMMA ForgottenFacts ==
  ASSUME NEW q \in Seq(Message)
  PROVE  /\ Forgotten(q) \in Seq(Message)
         /\ Len(Forgotten(q)) = Len(q)
         /\ DOMAIN Forgotten(q) = DOMAIN q
         /\ \A i \in DOMAIN q : /\ Forgotten(q)[i].v = q[i].v
                                /\ Forgotten(q)[i].dirty = q[i].dirty
                                /\ ~Forgotten(q)[i].awaited
         /\ q = << >> => Forgotten(q) = << >>
<1>1. DOMAIN Forgotten(q) = DOMAIN q /\ DOMAIN q = 1 .. Len(q)
  BY SMT DEF Forgotten
<1>2. \A i \in DOMAIN q : Forgotten(q)[i] = [q[i] EXCEPT !.awaited = FALSE] /\ q[i] \in Message
  BY SMT DEF Forgotten
<1>3. \A i \in DOMAIN q : /\ Forgotten(q)[i] \in Message
                          /\ Forgotten(q)[i].v = q[i].v
                          /\ Forgotten(q)[i].dirty = q[i].dirty
                          /\ ~Forgotten(q)[i].awaited
  BY <1>2 DEF Message
<1>4. Forgotten(q) = [i \in 1 .. Len(q) |-> Forgotten(q)[i]]
  BY <1>1 DEF Forgotten
<1>5. Forgotten(q) \in Seq(Message) /\ Len(Forgotten(q)) = Len(q)
  BY <1>1, <1>3, <1>4, SMT
<1>6. q = << >> => Forgotten(q) = << >>
  BY <1>5, SMT
<1> QED BY <1>1, <1>3, <1>5, <1>6
-----------------------------------------------------------------------------
(***************************************************************************)
(* Keys of fixed size are all found again by FileBackedKeySet::Load.       *)
(***************************************************************************)
FixedSize == \A c \in Config : ~c.variable

(* Before B joins A has no file of the migration, and none of its requests is under way. *)
LEMMA InitRoute ==
  ASSUME Init
  PROVE  RouteInv
<1> USE DEF Init
<1>1. cache \in [Server -> [Key -> Copy \cup {None}]]
  BY MigrateAssumption, SMT DEF Copy, Clean, Version
<1>2. wire \in [Key -> Seq(Message)] /\ \A k \in Key : wire[k] = << >> /\ Len(wire[k]) = 0
  BY EmptySeq
<1>3. TypeOK
  <2>1. /\ db \in [Key -> Version] /\ written \in [Key -> Version]
        /\ \A k \in Key : Len(wire[k]) <= max_wire
    BY <1>2, MigrateAssumption, SMT DEF Version
  <2>2. asked \in [Key -> {"no", "sent", "moved", "failed"}] /\ ~in_migration(state)
    BY DEF in_migration
  <2> QED BY <1>1, <1>2, <2>1, <2>2 DEF TypeOK, NodeState
<1>4. FilesAgree /\ Restartable
  BY DEF FilesAgree, Restartable, load_fails, in_migration, SavedState, NodeState
<1>5. \A k \in Key : Awaited(k)
  BY <1>2, SMT DEF Awaited
<1> QED BY <1>3, <1>4, <1>5 DEF RouteInv

(* A step of the cache units changes nothing of A's tables, files and requests. *)
LEMMA RowStep ==
  ASSUME RouteInv,
         UNCHANGED <<config, up, route, files, wire, asked, irregular, intact>>,
         cache' \in [Server -> [Key -> Copy \cup {None}]],
         db' \in [Key -> Version],
         written' \in [Key -> Version],
         overtaken' \subseteq Key, evicted' \subseteq Key
  PROVE  RouteInv'
<1> USE DEF RouteInv, route, files
<1>1. TypeOK'
  BY SMT DEF TypeOK, Recorded
<1>2. FilesAgree' /\ Restartable'
  BY DEF FilesAgree, Restartable, load_fails, SavedState, Saved, Recorded
<1>3. \A k \in Key : Awaited(k)'
  BY DEF Awaited
<1> QED BY <1>1, <1>2, <1>3

(* Get, Write, Flush and Evict of module KeyMigrate are such steps. *)
LEMMA RowActions ==
  ASSUME RouteInv, NEW k \in Key, NEW s \in Server,
         Get(k) \/ Write(k) \/ Flush(s, k) \/ Evict(s, k)
  PROVE  RouteInv'
<1> USE DEF Server
<1>1. /\ cache \in [Server -> [Key -> Copy \cup {None}]]
      /\ db \in [Key -> Version] /\ written \in [Key -> Version]
      /\ overtaken \subseteq Key /\ evicted \subseteq Key
      /\ mode \in {"SYNC", "ASYNC", "CACHE_ONLY"}
  BY MigrateAssumption DEF RouteInv, TypeOK, Configuration, mode
<1>2. destination(k) \in Server
  BY DEF destination
<1>3. \A v \in Version : Clean(v) \in Copy /\ [v |-> v, dirty |-> TRUE] \in Copy
  BY DEF Clean, Copy
<1>4. CASE Get(k)
  <2>1. cache' \in [Server -> [Key -> Copy \cup {None}]]
    BY <1>1, <1>2, <1>3, <1>4 DEF Get
  <2> QED BY <1>1, <1>4, <2>1, RowStep DEF Get, past
<1>5. CASE Write(k)
  <2>1. written[k] + 1 \in Version /\ written' = [written EXCEPT ![k] = written[k] + 1]
    BY <1>5 DEF Write
  <2>2. \E c \in Copy \cup {None} : cache' = [cache EXCEPT ![destination(k)][k] = c]
    BY <1>1, <1>2, <1>3, <1>5, <2>1 DEF Write
  <2>3. db' = db \/ db' = [db EXCEPT ![k] = written[k] + 1]
    BY <1>1, <1>5 DEF Write
  <2>4. /\ db' \in [Key -> Version] /\ written' \in [Key -> Version]
        /\ cache' \in [Server -> [Key -> Copy \cup {None}]]
    BY <1>1, <1>2, <2>1, <2>2, <2>3, SMT
  <2>5. overtaken' \subseteq Key /\ evicted' \subseteq Key
    BY <1>1, <1>5 DEF Write
  <2> QED BY <1>5, <2>4, <2>5, RowStep DEF Write
<1>6. CASE Flush(s, k)
  <2>1. db' \in [Key -> Version] /\ cache' \in [Server -> [Key -> Copy \cup {None}]]
    <3>1. cache[s][k] \in Copy
      BY <1>1, <1>6 DEF Flush
    <3>2. cache[s][k].v \in Version /\ [cache[s][k] EXCEPT !.dirty = FALSE] \in Copy
      BY <3>1 DEF Copy
    <3> QED BY <1>1, <1>6, <3>2 DEF Flush
  <2> QED BY <1>1, <1>6, <2>1, RowStep DEF Flush, past
<1>7. CASE Evict(s, k)
  <2>1. cache' \in [Server -> [Key -> Copy \cup {None}]]
    BY <1>1, <1>7 DEF Evict
  <2>2. overtaken' \subseteq Key /\ evicted' \subseteq Key
    BY <1>1, <1>7 DEF Evict
  <2> QED BY <1>1, <1>7, <2>1, <2>2, RowStep DEF Evict
<1> QED BY <1>4, <1>5, <1>6, <1>7

(* Migrate records the key before it sends the row, and waits for the answer. *)
LEMMA MigrateRoute ==
  ASSUME RouteInv, NEW k \in Key, Migrate(k)
  PROVE  RouteInv'
<1> DEFINE m == [v |-> cache["A"][k].v, dirty |-> cache["A"][k].dirty, awaited |-> TRUE]
<1> USE DEF RouteInv
<1>1. m \in Message /\ wire[k] \in Seq(Message)
  <2>1. cache["A"][k] \in Copy /\ wire[k] \in Seq(Message)
    BY SMT DEF Migrate, TypeOK, Server
  <2> QED BY <2>1 DEF Copy, Message
<1>2. keyfile \in [Key -> Status \cup {None}] /\ index = Recorded /\ in_migration(state)
  BY DEF Migrate, TypeOK, FilesAgree
<1>3. /\ keyfile' \in [Key -> Status \cup {None}] /\ keyfile' # None
      /\ index' \subseteq Key
  <2>1. keyfile' \in [Key -> Status \cup {None}]
    BY <1>2 DEF Migrate, Status
  <2>2. keyfile' # None
    BY <2>1, NoneAssumption
  <2> QED BY <2>1, <2>2 DEF Migrate, TypeOK
<1>4. index' = Recorded'
  BY <1>2, NoneAssumption DEF Migrate, Recorded, Status
<1>5. wire' = [wire EXCEPT ![k] = Append(@, m)] /\ asked' = [asked EXCEPT ![k] = "sent"]
  BY DEF Migrate
<1>6. wire' \in [Key -> Seq(Message)] /\ \A j \in Key : Len(wire'[j]) <= max_wire
  <2> HIDE DEF m
  <2>1. Append(wire[k], m) \in Seq(Message) /\ Len(Append(wire[k], m)) = Len(wire[k]) + 1
    BY <1>1, AppendFacts
  <2>2. Len(wire[k]) \in Nat /\ Len(wire[k]) < max_wire
    BY <1>1, SMT DEF Migrate
  <2> QED BY <1>5, <2>1, <2>2, MigrateAssumption, SMT DEF TypeOK
<1>7. TypeOK'
  BY <1>3, <1>4, <1>5, <1>6, SMT DEF TypeOK, Migrate, data, past
<1>8. FilesAgree'
  BY <1>2, <1>3, <1>4 DEF FilesAgree, Migrate, load_fails, SavedState
<1>9. Restartable'
  BY DEF Restartable, Migrate
<1>10. ASSUME NEW j \in Key PROVE Awaited(j)'
  <2>1. CASE j = k
    <3> HIDE DEF m
    <3>1. /\ wire'[k] = Append(wire[k], m) /\ asked'[k] = "sent" /\ asked[k] = "no"
          /\ \A i \in DOMAIN wire[k] : ~wire[k][i].awaited
      BY <1>5, SMT DEF TypeOK, Migrate, Awaited
    <3>2. /\ Len(wire'[k]) = Len(wire[k]) + 1
          /\ DOMAIN wire'[k] = 1 .. Len(wire[k]) + 1
          /\ DOMAIN wire[k] = 1 .. Len(wire[k])
          /\ \A i \in 1 .. Len(wire[k]) : wire'[k][i] = wire[k][i]
      BY <1>1, <3>1, AppendFacts, LenProperties, SMT
    <3> QED BY <1>1, <2>1, <3>1, <3>2, SMT DEF Awaited
  <2>2. CASE j # k
    BY <1>5, <2>2 DEF Awaited, TypeOK
  <2> QED BY <2>1, <2>2
<1> QED BY <1>7, <1>8, <1>9, <1>10

(* A request leaves the wire; B's answer to it may reach A. *)
LEMMA TakenRoute ==
  ASSUME RouteInv, NEW k \in Key, NEW a \in {"moved", "failed"}, NEW i \in DOMAIN wire[k],
         wire' = [wire EXCEPT ![k] = Taken(@, i)],
         \/ asked' = asked
         \/ wire[k][i].awaited /\ asked' = [asked EXCEPT ![k] = a],
         cache' \in [Server -> [Key -> Copy \cup {None}]],
         UNCHANGED <<config, up, route, files, db, past, irregular, intact>>
  PROVE  RouteInv'
<1> USE DEF RouteInv, route, files, past
<1> DEFINE q == wire[k]
           rest == Taken(q, i)
<1>1. q \in Seq(Message) /\ wire'[k] = rest /\ \A j \in Key : j # k => wire'[j] = wire[j]
  BY DEF TypeOK
<1>2. /\ Len(q) \in Nat \ {0} /\ i \in 1 .. Len(q) /\ DOMAIN q = 1 .. Len(q)
      /\ rest \in Seq(Message) /\ Len(rest) = Len(q) - 1 /\ DOMAIN rest = 1 .. Len(q) - 1
      /\ \A j \in 1 .. Len(q) - 1 : rest[j] = IF j < i THEN q[j] ELSE q[j + 1]
  BY <1>1, RemovedFacts, LenProperties
<1> HIDE DEF rest
<1>3. \A j \in DOMAIN q : q[j].awaited => j = Len(q) /\ asked[k] = "sent"
  BY DEF Awaited
<1> HIDE DEF q
<1>4. ASSUME NEW j \in DOMAIN rest, rest[j].awaited
      PROVE  j = Len(rest) /\ asked[k] = "sent" /\ i # Len(q)
  <2>1. CASE j < i
    <3>1. rest[j] = q[j] /\ j \in DOMAIN q /\ j # Len(q)
      BY <1>2, <2>1, SMT
    <3> QED BY <1>3, <1>4, <3>1
  <2>2. CASE ~(j < i)
    <3>1. rest[j] = q[j + 1] /\ j + 1 \in DOMAIN q
      BY <1>2, <2>2, SMT
    <3>2. j + 1 = Len(q) /\ asked[k] = "sent"
      BY <1>3, <1>4, <3>1
    <3> QED BY <1>2, <2>2, <3>2, SMT
  <2> QED BY <2>1, <2>2
<1>5. q[i].awaited => asked[k] = "sent" /\ i = Len(q)
  BY <1>2, <1>3
<1>6. TypeOK'
  <2>1. wire' \in [Key -> Seq(Message)] /\ \A j \in Key : Len(wire'[j]) <= max_wire
    BY <1>1, <1>2, MigrateAssumption, SMT DEF TypeOK, q, rest
  <2>2. asked' \in [Key -> {"no", "sent", "moved", "failed"}]
    BY DEF TypeOK
  <2> QED BY <2>1, <2>2, SMT DEF TypeOK, Recorded
<1>7. FilesAgree'
  <2>1. up # "running" => asked' = asked
    BY <1>5 DEF FilesAgree, q
  <2> QED BY <2>1 DEF FilesAgree, load_fails, SavedState, Recorded
<1>8. Restartable'
  BY DEF Restartable, load_fails, SavedState, Saved
<1>9. ASSUME NEW j \in Key PROVE Awaited(j)'
  <2>1. CASE j # k
    BY <1>1, <2>1, SMT DEF Awaited, TypeOK
  <2>2. CASE j = k /\ asked' = asked
    BY <1>1, <1>4, <2>2 DEF Awaited
  <2>3. CASE j = k /\ asked' = [asked EXCEPT ![k] = a] /\ q[i].awaited
    BY <1>1, <1>4, <1>5, <2>3 DEF Awaited
  <2> QED BY <2>1, <2>2, <2>3 DEF q
<1> QED BY <1>6, <1>7, <1>8, <1>9

(* B takes a request, or the network loses it. *)
LEMMA DeliverRoute ==
  ASSUME RouteInv, NEW k \in Key, buffer_migrate(k) \/ Lose(k)
  PROVE  RouteInv'
<1>1. CASE Lose(k)
  BY <1>1, TakenRoute DEF Lose, data, RouteInv, TypeOK
<1>2. CASE buffer_migrate(k)
  <2>1. PICK i \in DOMAIN wire[k], outcome \in {"ok", "no node", "no room"}, lost \in BOOLEAN :
          /\ cache' = [cache EXCEPT !["B"][k] = Replaced(wire[k][i], outcome, @)]
          /\ wire' = [wire EXCEPT ![k] = Taken(@, i)]
          /\ asked' = [asked EXCEPT ![k] =
                          IF wire[k][i].awaited /\ ~lost THEN Answered(outcome) ELSE @]
          /\ UNCHANGED <<config, up, route, files, db, past, irregular, intact>>
    BY <1>2 DEF buffer_migrate
  <2>2. wire[k][i] \in Message /\ cache["B"][k] \in Copy \cup {None}
    BY <2>1, RemovedFacts DEF RouteInv, TypeOK, Server
  <2>3. Replaced(wire[k][i], outcome, cache["B"][k]) \in Copy \cup {None}
    BY <2>2 DEF Replaced, Copy, Message
  <2>4. cache' \in [Server -> [Key -> Copy \cup {None}]]
    BY <2>1, <2>3 DEF RouteInv, TypeOK, Server
  <2>5. \/ asked' = asked
        \/ wire[k][i].awaited /\ asked' = [asked EXCEPT ![k] = Answered(outcome)]
    BY <2>1 DEF RouteInv, TypeOK
  <2>6. Answered(outcome) \in {"moved", "failed"}
    BY DEF Answered
  <2> QED BY <2>1, <2>4, <2>5, <2>6, TakenRoute
<1> QED BY <1>1, <1>2

(* A gets B's answer or gives up waiting for it. *)
LEMMA AnswerRoute ==
  ASSUME RouteInv, NEW k \in Key, job_answer_procedure(k) \/ job_answer_error(k)
  PROVE  RouteInv'
<1> USE DEF RouteInv
<1>1. CASE job_answer_procedure(k)
  <2> USE <1>1 DEF job_answer_procedure, route, past
  <2>1. /\ keyfile' = IF in_migration(state) /\ k \in index
                      THEN [keyfile EXCEPT ![k] = "SUCCESS"] ELSE keyfile
        /\ in_migration(state) => keyfile \in [Key -> Status \cup {None}]
    BY DEF key_migrated, TypeOK
  <2>2. /\ keyfile' = None \/ keyfile' \in [Key -> Status \cup {None}]
        /\ keyfile' = None <=> keyfile = None
    BY <2>1, NoneAssumption DEF Status, TypeOK
  <2>3. in_migration(state) => Recorded' = Recorded
    BY <2>1, NoneAssumption DEF Recorded, Status, FilesAgree, TypeOK
  <2>4. TypeOK'
    BY <2>2, <2>3, SMT DEF TypeOK, Server
  <2>5. FilesAgree' /\ Restartable'
    BY <2>2, <2>3 DEF FilesAgree, Restartable, load_fails, SavedState
  <2>6. \A j \in Key : Awaited(j)'
    BY DEF Awaited, TypeOK
  <2> QED BY <2>4, <2>5, <2>6
<1>2. CASE job_answer_error(k)
  <2> USE <1>2 DEF job_answer_error, route, files, data, past
  <2>1. /\ wire[k] \in Seq(Message)
        /\ wire'[k] = Forgotten(wire[k]) /\ \A j \in Key : j # k => wire'[j] = wire[j]
    BY DEF TypeOK
  <2>2. wire' \in [Key -> Seq(Message)] /\ \A j \in Key : Len(wire'[j]) <= max_wire
    BY <2>1, ForgottenFacts, SMT DEF TypeOK
  <2>3. TypeOK'
    BY <2>2, SMT DEF TypeOK, Recorded
  <2>4. FilesAgree' /\ Restartable'
    BY DEF FilesAgree, Restartable, load_fails, SavedState, Recorded
  <2>5. ASSUME NEW j \in Key PROVE Awaited(j)'
    BY <2>1, ForgottenFacts, SMT DEF Awaited, TypeOK
  <2> QED BY <2>3, <2>4, <2>5
<1> QED BY <1>1, <1>2
-----------------------------------------------------------------------------
(* What a client or the tool can see of A's tables is what A's files have of them. *)
LEMMA NowIsSaved ==
  ASSUME RouteInv, up = "running"
  PROVE  /\ Now = Saved
         /\ Now \in [table : BOOLEAN, state : NodeState, keys : [Key -> Status \cup {None}]]
<1> USE DEF RouteInv
<1>1. /\ table = cfgfile /\ state = SavedState
      /\ table \in BOOLEAN /\ state \in NodeState
      /\ in_migration(state) => keyfile \in [Key -> Status \cup {None}] /\ index = Recorded
      /\ ~in_migration(state) => index = {}
  BY DEF FilesAgree, TypeOK
<1> DEFINE keys == [k \in Key |-> IF in_migration(state) /\ k \in index THEN keyfile[k] ELSE None]
<1>2. keys = [k \in Key |-> IF in_migration(state) THEN keyfile[k] ELSE None]
  BY <1>1 DEF Recorded
<1>3. keys \in [Key -> Status \cup {None}]
  BY <1>1
<1>4. Now = [table |-> table, state |-> state, keys |-> keys]
  BY DEF Now, Tables
<1> HIDE DEF keys
<1> QED BY <1>1, <1>2, <1>3, <1>4 DEF Saved

(* A step in which A is killed, when the files it leaves are among those it may find. *)
LEMMA KillRoute ==
  ASSUME RouteInv, NEW P, Kill(P),
         P \subseteq [table : BOOLEAN, state : NodeState, keys : [Key -> Status \cup {None}]],
         ~load_fails' => Saved' \in P,
         config' = config, cfgfile' \in BOOLEAN, irregular' \in BOOLEAN,
         statfile' \in {"absent", "empty", "alone"} \cup NodeState,
         keyfile' = None \/ keyfile' \in [Key -> Status \cup {None}],
         cache' \in [Server -> [Key -> Copy \cup {None}]],
         db' = db, UNCHANGED past
  PROVE  RouteInv'
<1> USE DEF RouteInv, Kill
<1>1. \A k \in Key : wire[k] \in Seq(Message) /\ wire'[k] = Forgotten(wire[k])
  BY DEF TypeOK
<1>2. wire' \in [Key -> Seq(Message)] /\ \A j \in Key : Len(wire'[j]) <= max_wire
  BY <1>1, ForgottenFacts DEF TypeOK
<1>3. /\ asked' \in [Key -> {"no", "sent", "moved", "failed"}]
      /\ up' \in {"running", "killed", "refused"}
      /\ table' \in BOOLEAN /\ cascading' \in BOOLEAN /\ state' \in NodeState
      /\ index' \subseteq Key /\ ~in_migration(state')
  BY DEF NodeState, in_migration
<1>4. TypeOK'
  BY <1>2, <1>3 DEF TypeOK, past
<1>5. FilesAgree' /\ Restartable'
  BY DEF FilesAgree, Restartable
<1>6. ASSUME NEW j \in Key PROVE Awaited(j)'
  BY <1>1, ForgottenFacts DEF Awaited
<1> QED BY <1>4, <1>5, <1>6

(* A kill between two handlers, or between the purge and the mark of a moved key. *)
LEMMA CrashRoute ==
  ASSUME RouteInv, Crash \/ \E k \in Key : job_answer_killed(k)
  PROVE  RouteInv'
<1>1. /\ up = "running" /\ Kill({Now})
      /\ UNCHANGED <<config, files, db, past, irregular>>
      /\ cache' = cache \/ \E k \in Key : cache' = [cache EXCEPT !["A"][k] = None]
  BY DEF Crash, job_answer_killed, data
<1>2. cache' \in [Server -> [Key -> Copy \cup {None}]]
  <2>1. cache \in [Server -> [Key -> Copy \cup {None}]]
    BY DEF RouteInv, TypeOK
  <2>2. ASSUME NEW k \in Key, cache' = [cache EXCEPT !["A"][k] = None]
        PROVE  cache' \in [Server -> [Key -> Copy \cup {None}]]
    BY <2>1, <2>2 DEF Server
  <2> QED BY <1>1, <2>1, <2>2
<1>3. Saved' = Saved
  BY <1>1 DEF Saved, SavedState, files
<1>4. /\ cfgfile' \in BOOLEAN /\ irregular' \in BOOLEAN
      /\ statfile' \in {"absent", "empty", "alone"} \cup NodeState
      /\ keyfile' = None \/ keyfile' \in [Key -> Status \cup {None}]
      /\ config' = config /\ db' = db /\ UNCHANGED past
  BY <1>1 DEF files, RouteInv, TypeOK
<1>5. /\ {Now} \subseteq [table : BOOLEAN, state : NodeState, keys : [Key -> Status \cup {None}]]
      /\ Saved' \in {Now}
  BY <1>1, <1>3, NowIsSaved
<1> QED BY <1>1, <1>2, <1>4, <1>5, KillRoute

(* SetClusterNodeState: the key file and the state file after a whole or a half of it. *)
LEMMA StateChangeRoute ==
  ASSUME RouteInv, NEW new \in NodeState, process_node_state_change(new)
  PROVE  RouteInv'
<1> USE DEF RouteInv
<1>1. /\ up = "running" /\ table = TRUE /\ cfgfile = TRUE /\ cfgfile' = TRUE
      /\ state \in NodeState /\ statfile # "alone" /\ statfile # "empty"
      /\ state = SavedState /\ ~load_fails
      /\ config' = config /\ UNCHANGED data
      /\ irregular' \in BOOLEAN
  BY DEF process_node_state_change, FilesAgree, TypeOK, load_fails
<1>2. /\ keyfile' = key_file_after(state, new)
      /\ EmptyKeyFile \in [Key -> Status \cup {None}]
  BY DEF process_node_state_change, EmptyKeyFile
<1>3. /\ keyfile' = None \/ keyfile' \in [Key -> Status \cup {None}]
      /\ in_migration(new) => keyfile' \in [Key -> Status \cup {None}]
  BY <1>2 DEF key_file_after, TypeOK
<1>4. CASE /\ state' = new
           /\ index' = IF in_migration(state) /\ in_migration(new) THEN index ELSE {}
           /\ save_state_to_file(table, new)
           /\ UNCHANGED <<up, table, cascading, wire, asked, intact>>
  <2>1. statfile' = new /\ SavedState' = new
    BY <1>1, <1>4 DEF save_state_to_file, SavedState
  <2>2. index' = IF in_migration(new) THEN Recorded' ELSE {}
    <3>1. CASE in_migration(state) /\ in_migration(new)
      BY <1>1, <1>2, <1>4, <3>1 DEF key_file_after, FilesAgree, Recorded
    <3>2. CASE ~in_migration(state) /\ in_migration(new)
      BY <1>2, <1>4, <3>2 DEF key_file_after, EmptyKeyFile, Recorded
    <3>3. CASE ~in_migration(new)
      BY <1>4, <3>3
    <3> QED BY <3>1, <3>2, <3>3
  <2>3. in_migration(new) => keyfile' # None
    BY <1>3, NoneAssumption
  <2>4. ~load_fails'
    BY <1>1, <2>1, <2>3 DEF load_fails, NodeState, in_migration
  <2>5. TypeOK'
    BY <1>1, <1>3, <1>4, <2>1, <2>2, <2>3 DEF TypeOK, data, past
  <2>6. FilesAgree' /\ Restartable'
    BY <1>1, <1>4, <2>1, <2>2, <2>4 DEF FilesAgree, Restartable
  <2>7. \A k \in Key : Awaited(k)'
    BY <1>4 DEF Awaited
  <2> QED BY <2>5, <2>6, <2>7
<1>5. ASSUME NEW point \in {"keyset", "open"},
             statfile' = IF point = "open" THEN "empty" ELSE statfile,
             Kill({Now, Tables(TRUE, new, keyfile)})
      PROVE  RouteInv'
  <2>1. Tables(TRUE, new, keyfile) \in
          [table : BOOLEAN, state : NodeState, keys : [Key -> Status \cup {None}]]
    BY <1>1 DEF Tables, TypeOK, FilesAgree
  <2>2. ~load_fails' => Saved' = Now
    <3> SUFFICES ASSUME ~load_fails' PROVE Saved' = Now
      OBVIOUS
    <3>1. statfile' = statfile /\ SavedState' = state
      BY <1>1, <1>5 DEF load_fails, SavedState
    <3>2. in_migration(state) => in_migration(new)
      BY <1>1, <1>2, <3>1
         DEF load_fails, key_file_after, SavedState, in_migration, NodeState
    <3>3. in_migration(state) => keyfile' = keyfile
      BY <1>2, <3>2 DEF key_file_after
    <3>4. Saved' = Saved
      BY <1>1, <3>1, <3>3 DEF Saved
    <3> QED BY <1>1, <3>4, NowIsSaved
  <2> QED BY <1>1, <1>3, <1>5, <2>1, <2>2, NowIsSaved, KillRoute DEF data, TypeOK
<1> QED BY <1>4, <1>5 DEF process_node_state_change

(* ReloadClusterNodeList, whole or in part *)
LEMMA ReloadRoute ==
  ASSUME RouteInv, NEW new \in BOOLEAN, process_reload(new)
  PROVE  RouteInv'
<1> USE DEF RouteInv
<1>1. /\ up = "running" /\ table = cfgfile /\ cfgfile' = new
      /\ state \in NodeState /\ ~in_migration(state)
      /\ state = SavedState /\ ~load_fails /\ index = {}
      /\ config' = config /\ UNCHANGED data /\ keyfile' = keyfile
      /\ irregular' \in BOOLEAN
  BY DEF process_reload, FilesAgree, TypeOK
<1>2. CASE /\ table' = new
           /\ state' = "NOT_STARTED"
           /\ save_state_to_file(new, "NOT_STARTED")
           /\ UNCHANGED <<up, index, cascading, wire, asked, intact>>
  <2>1. statfile' = IF new THEN "NOT_STARTED" ELSE "alone"
    BY <1>2 DEF save_state_to_file
  <2>2. SavedState' = "NOT_STARTED" /\ ~in_migration(state') /\ ~load_fails'
    BY <1>1, <1>2, <2>1 DEF SavedState, NodeState, in_migration, load_fails
  <2>3. TypeOK'
    BY <1>1, <1>2, <2>1, <2>2 DEF TypeOK, data, past, NodeState
  <2>4. FilesAgree' /\ Restartable'
    BY <1>1, <1>2, <2>2 DEF FilesAgree, Restartable
  <2>5. \A k \in Key : Awaited(k)'
    BY <1>2 DEF Awaited
  <2> QED BY <2>3, <2>4, <2>5
<1>3. ASSUME NEW point \in {"config", "open"},
             statfile' = IF point = "open" THEN "empty" ELSE statfile,
             Kill({Now, Tables(new, "NOT_STARTED", keyfile)})
      PROVE  RouteInv'
  <2>1. Tables(new, "NOT_STARTED", keyfile) =
          [table |-> new, state |-> "NOT_STARTED", keys |-> [k \in Key |-> None]]
    BY DEF Tables, in_migration
  <2>2. Tables(new, "NOT_STARTED", keyfile) \in
          [table : BOOLEAN, state : NodeState, keys : [Key -> Status \cup {None}]]
    BY <2>1, SMT DEF NodeState
  <2>3. ~load_fails' => Saved' \in {Now, Tables(new, "NOT_STARTED", keyfile)}
    <3> SUFFICES ASSUME ~load_fails' PROVE Saved' \in {Now, Tables(new, "NOT_STARTED", keyfile)}
      OBVIOUS
    <3>1. statfile' = statfile /\ SavedState' = state
      BY <1>1, <1>3 DEF load_fails, SavedState
    <3>2. Saved' = [table |-> new, state |-> state, keys |-> [k \in Key |-> None]]
      BY <1>1, <3>1 DEF Saved
    <3>3. Saved = [table |-> cfgfile, state |-> state, keys |-> [k \in Key |-> None]]
      BY <1>1 DEF Saved
    <3>4. CASE statfile \in NodeState
      <4>1. new = cfgfile
        BY <1>1, <3>1, <3>4 DEF load_fails, TypeOK
      <4> QED BY <1>1, <3>2, <3>3, <4>1, NowIsSaved
    <3>5. CASE statfile \notin NodeState
      BY <1>1, <2>1, <3>2, <3>5 DEF SavedState
    <3> QED BY <3>4, <3>5
  <2> QED BY <1>1, <1>3, <2>2, <2>3, NowIsSaved, KillRoute
             DEF data, TypeOK, NodeState
<1> QED BY <1>2, <1>3 DEF process_reload

(* The start of A, and the operator's repair of one that fails *)
LEMMA StartRoute ==
  ASSUME FixedSize, RouteInv,
         load_node_state_if_any \/ start_fails \/ remove_state_file \/ process_cascade
  PROVE  RouteInv'
<1> USE DEF RouteInv
<1>1. CASE load_node_state_if_any
  <2> USE <1>1 DEF load_node_state_if_any, files, data, past
  <2>1. /\ up' = "running" /\ table' = cfgfile /\ UNCHANGED files /\ ~load_fails
        /\ state' = SavedState /\ SavedState \in NodeState
        /\ in_migration(statfile) <=> in_migration(SavedState)
    BY DEF SavedState, NodeState, in_migration
  <2>2. index' = IF in_migration(SavedState) THEN Recorded ELSE {}
    BY <2>1, MigrateAssumption DEF Load, FixedSize, TypeOK
  <2>3. Recorded' = Recorded /\ SavedState' = SavedState /\ load_fails' = load_fails
    BY DEF Recorded, SavedState, load_fails
  <2>4. in_migration(SavedState) => keyfile # None
    BY <2>1 DEF load_fails
  <2>5. TypeOK'
    BY <2>1, <2>2, <2>3, <2>4 DEF TypeOK, Recorded
  <2>6. FilesAgree' /\ Restartable'
    BY <2>1, <2>2, <2>3 DEF FilesAgree, Restartable
  <2>7. \A k \in Key : Awaited(k)'
    BY DEF Awaited
  <2> QED BY <2>5, <2>6, <2>7
<1>2. CASE start_fails
  <2> USE <1>2 DEF start_fails, files, data, past, route
  <2>1. TypeOK'
    BY SMT DEF TypeOK, Recorded
  <2>2. FilesAgree' /\ Restartable' /\ \A k \in Key : Awaited(k)'
    BY DEF FilesAgree, Restartable, Awaited
  <2> QED BY <2>1, <2>2
<1>3. CASE remove_state_file
  <2> USE <1>3 DEF remove_state_file, data, past, route
  <2>1. TypeOK'
    BY DEF TypeOK, Recorded
  <2>2. FilesAgree' /\ Restartable' /\ \A k \in Key : Awaited(k)'
    BY DEF FilesAgree, Restartable, Awaited
  <2> QED BY <2>1, <2>2
<1>4. CASE process_cascade
  <2> USE <1>4 DEF process_cascade, files, data, past
  <2>1. TypeOK'
    BY DEF TypeOK, Recorded
  <2>2. FilesAgree' /\ Restartable' /\ \A k \in Key : Awaited(k)'
    BY DEF FilesAgree, Restartable, Awaited, load_fails, SavedState, Recorded
  <2> QED BY <2>1, <2>2
<1> QED BY <1>1, <1>2, <1>3, <1>4

(* Every step keeps the tables and the files in agreement. *)
LEMMA NextRoute ==
  ASSUME FixedSize, RouteInv, [Next]_vars
  PROVE  RouteInv'
<1>1. CASE UNCHANGED vars
  <2> USE <1>1 DEF vars, RouteInv
  <2>1. TypeOK'
    BY SMT DEF TypeOK, Recorded
  <2>2. FilesAgree' /\ Restartable' /\ \A k \in Key : Awaited(k)'
    BY DEF FilesAgree, Restartable, Awaited, load_fails, SavedState, Saved, Recorded
  <2> QED BY <2>1, <2>2
<1>2. CASE \E k \in Key : \/ Get(k) \/ Write(k)
                         \/ \E s \in Server : Flush(s, k) \/ Evict(s, k)
  BY <1>2, RowActions DEF Server
<1>3. CASE \E k \in Key : Migrate(k) \/ buffer_migrate(k) \/ Lose(k)
  BY <1>3, MigrateRoute, DeliverRoute
<1>4. CASE \E k \in Key : job_answer_procedure(k) \/ job_answer_error(k)
  BY <1>4, AnswerRoute
<1>5. CASE Crash \/ \E k \in Key : job_answer_killed(k)
  BY <1>5, CrashRoute
<1>6. CASE \E new \in NodeState : process_node_state_change(new)
  BY <1>6, StateChangeRoute
<1>7. CASE \E new \in BOOLEAN : process_reload(new)
  BY <1>7, ReloadRoute
<1>8. CASE load_node_state_if_any \/ start_fails \/ remove_state_file \/ process_cascade
  BY <1>8, StartRoute
<1> QED BY <1>1, <1>2, <1>3, <1>4, <1>5, <1>6, <1>7, <1>8 DEF Next

(* The steps that bring a killed A back *)
LEMMA OnlyAStart ==
  ASSUME [Next]_vars, up = "killed", up' = "running"
  PROVE  load_node_state_if_any
BY SMT DEF Next, vars, Get, Write, Admitted, Flush, Evict, Migrate, buffer_migrate, Lose,
   Crash,
       job_answer_procedure, job_answer_error, job_answer_killed, process_node_state_change,
       process_reload, process_cascade, start_fails, remove_state_file

(* A's tables agree with its files, and at most the last request sent for a key is awaited. *)
THEOREM RouteInvariance ==
  ASSUME FixedSize
  PROVE  Spec => []RouteInv
<1>1. Init => RouteInv
  BY InitRoute
<1>2. RouteInv /\ [Next]_vars => RouteInv'
  BY NextRoute
<1> QED BY <1>1, <1>2, PTL DEF Spec

(* In particular every variable has its type: FileBackedKeySet never finds a key that its *)
(* file does not have, and has a file throughout a migration.                             *)
THEOREM MigrateTypes ==
  ASSUME FixedSize
  PROVE  Spec => []TypeOK
<1>1. RouteInv => TypeOK
  BY DEF RouteInv
<1> QED BY <1>1, RouteInvariance, PTL

(***************************************************************************)
(* A restart brings A back to the tables before or after the command it    *)
(* was killed in, wherever process_node_state_change, process_reload or    *)
(* the answer to Migrate was cut off: with keys of fixed size.             *)
(***************************************************************************)
THEOREM RestartAtomic ==
  ASSUME FixedSize
  PROVE  Spec => RestartIsAtomic
<1>1. RouteInv /\ up = "running" => Now = Saved
  BY NowIsSaved
<1>2. (RouteInv /\ up = "running" => Now = Saved)'
  BY <1>1, PTL
<1>3. RouteInv /\ RouteInv' /\ [Next]_vars
        => [up = "killed" /\ up' = "running" /\ intact # {} => Now' \in intact]_vars
  <2> SUFFICES ASSUME RouteInv, RouteInv', [Next]_vars,
                      up = "killed", up' = "running", intact # {}
               PROVE  Now' \in intact
    OBVIOUS
  <2>1. load_node_state_if_any
    BY OnlyAStart
  <2>2. ~load_fails /\ Saved' = Saved
    BY <2>1 DEF load_node_state_if_any, files, Saved, SavedState
  <2>3. Saved \in intact
    BY <2>2 DEF RouteInv, Restartable
  <2> QED BY <1>2, <2>2, <2>3
<1> QED BY <1>3, RouteInvariance, PTL DEF Spec, RestartIsAtomic
-----------------------------------------------------------------------------
(***************************************************************************)
(* Where the last write of a key is during a migration: theorems about     *)
(* module KeyMigrate for every set of keys and any number of writes and of *)
(* requests under way.                                                     *)
(***************************************************************************)

(* a copy, or a row under way, has the last write, and the database has it too or will get it *)
Current(k, c) ==
  c.v = written[k] /\ (c.dirty \/ mode = "CACHE_ONLY" \/ db[k] = written[k])

(* what the database has of a key, or of an evicted row when there is none *)
Backed(k) == IF mode = "CACHE_ONLY" THEN k \in evicted ELSE db[k] = written[k]

(* what server s has of a key, in its cache or the database, is the last write *)
Holds(s, k) == IF cache[s][k] = None THEN Backed(k) ELSE Current(k, cache[s][k])

(* by its files, A serves a key that B has heard nothing of, or passes the key on *)
Untouched(k) ==
  \/ SavedState = "NOT_STARTED"
  \/ in_migration(SavedState) /\ keyfile[k] = None
Marked(k) == in_migration(SavedState) /\ keyfile[k] = "SUCCESS"
Moved(k) == SavedState = "COMPLETED" \/ Marked(k)

(* Nothing that is under way or with B is old; A's copy is old only when it is clean *)
(* and A does not serve it any more.                                                 *)
NothingOld(k) ==
  /\ \A i \in DOMAIN wire[k] : Current(k, wire[k][i])
  /\ cache["B"][k] # None => Current(k, cache["B"][k])
  /\ cache["A"][k] # None =>
       IF SavedState = "COMPLETED" THEN mode # "CACHE_ONLY" /\ ~cache["A"][k].dirty
                                   ELSE Current(k, cache["A"][k])
  /\ mode = "SYNC" => db[k] = written[k]

(* The server that A's files name for a key has its row. *)
InPlace(k) ==
  /\ Untouched(k) => wire[k] = << >> /\ cache["B"][k] = None /\ asked[k] = "no"
  /\ ~Moved(k) => Holds("A", k)
  /\ Moved(k) \/ asked[k] = "moved" => Holds("B", k)
  /\ Marked(k) => cache["A"][k] = None

Row(k) == NothingOld(k) /\ (~load_fails => InPlace(k))

(* of every key that was not written on B ahead of a Migrate of it *)
Rows == ~irregular => ~cascading /\ \A k \in Key \ overtaken : Row(k)
-----------------------------------------------------------------------------
(***************************************************************************)
(* A write-back B has memory for what it is sent, and A is not killed      *)
(* between the purge of a moved key and its mark when the database may not *)
(* have its row.                                                           *)
(***************************************************************************)
Sheltered ==
  \A c \in Config :
    c.mode # "SYNC" => "purge" \notin c.kill /\ (c.mode = "ASYNC" => ~c.scarce)

(* Where A's files put a key *)
SamePlace(k) ==
  /\ SavedState' = "COMPLETED" <=> SavedState = "COMPLETED"
  /\ ~load_fails' => /\ ~load_fails
                     /\ Untouched(k)' <=> Untouched(k)
                     /\ Marked(k)' <=> Marked(k)

SameData(k) ==
  /\ config' = config
  /\ cache'["A"][k] = cache["A"][k] /\ cache'["B"][k] = cache["B"][k]
  /\ db'[k] = db[k] /\ written'[k] = written[k]
  /\ k \in evicted' <=> k \in evicted

(* No copy and no record is neither a copy nor a status, and no file is not a file. *)
LEMMA NoneFacts ==
  /\ None # "START" /\ None # "SUCCESS"
  /\ None \notin Copy
  /\ None \notin [Key -> Status \cup {None}]
BY NoneAssumption DEF Status

(* What is the last write stays it when neither the database nor the last write changes. *)
LEMMA CurrentKept ==
  ASSUME NEW k, config' = config, db'[k] = db[k], written'[k] = written[k]
  PROVE  (\A x : Current(k, x)' <=> Current(k, x)) /\ mode' = mode
BY DEF Current, mode

(* And so does what a server has, when its copy does not change either. *)
LEMMA HoldsKept ==
  ASSUME NEW k, NEW s, config' = config, db'[k] = db[k], written'[k] = written[k],
         k \in evicted' <=> k \in evicted,
         cache'[s][k] = cache[s][k]
  PROVE  Holds(s, k)' <=> Holds(s, k)
BY CurrentKept DEF Holds, Backed

(* A key whose place and copies stay as they are, even if A forgets its requests *)
LEMMA RowKept ==
  ASSUME NEW k \in Key, wire[k] \in Seq(Message), Row(k), SamePlace(k), SameData(k),
         wire'[k] = wire[k] \/ wire'[k] = Forgotten(wire[k]),
         asked'[k] = asked[k] \/ asked'[k] = "no"
  PROVE  Row(k)'
<1>1. /\ DOMAIN wire'[k] = DOMAIN wire[k]
      /\ \A i \in DOMAIN wire[k] : /\ wire'[k][i].v = wire[k][i].v
                                   /\ wire'[k][i].dirty = wire[k][i].dirty
      /\ wire[k] = << >> => wire'[k] = << >>
  BY ForgottenFacts, SMT
<1>2. \A s \in Server : Holds(s, k)' <=> Holds(s, k)
  BY HoldsKept DEF SameData, Server
<1>3. NothingOld(k)'
  BY <1>1 DEF Row, NothingOld, Current, mode, SameData, SamePlace
<1>4. ~load_fails' => InPlace(k)'
  BY <1>1, <1>2 DEF Row, InPlace, Moved, SameData, SamePlace, Server
<1> QED BY <1>3, <1>4 DEF Row

(* Files that stay as they are *)
LEMMA FilesKept ==
  ASSUME UNCHANGED files, NEW k
  PROVE  SamePlace(k)
BY DEF SamePlace, files, load_fails, Untouched, Marked, SavedState

(* job_ask_procedure sends a request where A's files put its key, and refuses a write of *)
(* a key that A serves when B may have heard of it.                                      *)
LEMMA Destination ==
  ASSUME RouteInv, up = "running", ~cascading, NEW k \in Key
  PROVE  /\ destination(k) = IF Moved(k) THEN "B" ELSE "A"
         /\ Untouched(k) => ~Moved(k)
         /\ ~Moved(k) /\ ~refused(k, "Update") => Untouched(k)
<1> USE DEF RouteInv
<1>1. /\ table = cfgfile /\ state = SavedState /\ state \in NodeState
      /\ index = IF in_migration(state) THEN Recorded ELSE {}
      /\ state # "NOT_STARTED" => table
      /\ in_migration(state) => keyfile \in [Key -> Status \cup {None}]
  BY DEF FilesAgree, TypeOK, load_fails, SavedState
<1>2. in_migration(state) => (k \in index <=> keyfile[k] # None)
  BY <1>1 DEF Recorded
<1>3. None # "SUCCESS" /\ None # "START"
  BY NoneAssumption DEF Status
<1>4. table /\ accept_key(k) <=> Moved(k)
  BY <1>1, <1>2, <1>3 DEF accept_key, Contains, Moved, Marked, in_migration
<1>5. Untouched(k) => ~Moved(k)
  BY <1>1, <1>3 DEF Untouched, Moved, Marked, in_migration
<1>6. ~Moved(k) /\ ~refused(k, "Update") => Untouched(k)
  <2> SUFFICES ASSUME ~Moved(k), ~refused(k, "Update") PROVE Untouched(k)
    OBVIOUS
  <2>1. ~(table /\ (is_migrating(k) \/ state = "MIGRATE_READONLY"))
    BY <1>4 DEF refused, destination
  <2> QED BY <1>1, <1>2, <1>3, <2>1
          DEF Untouched, Moved, Marked, is_migrating, in_migration, NodeState, Status
<1> QED BY <1>4, <1>5, <1>6 DEF destination

(* A step that concerns one key *)
LEMMA OneKey ==
  ASSUME RouteInv, Rows, NEW k \in Key,
         UNCHANGED <<cascading, irregular>>, overtaken \subseteq overtaken',
         \A j \in Key \ {k} : /\ SamePlace(j) /\ SameData(j)
                             /\ wire'[j] = wire[j] /\ asked'[j] = asked[j],
         ~irregular /\ ~cascading /\ k \notin overtaken' /\ Row(k) => Row(k)'
  PROVE  Rows'
<1> SUFFICES ASSUME ~irregular, NEW j \in Key \ overtaken' PROVE Row(j)'
  BY DEF Rows
<1>1. ~cascading /\ Row(j) /\ wire[j] \in Seq(Message)
  BY DEF Rows, RouteInv, TypeOK
<1>2. CASE j = k
  BY <1>1, <1>2
<1>3. CASE j # k
  BY <1>1, <1>3, RowKept
<1> QED BY <1>2, <1>3

(* A's tables and files have no part in a step of the cache units. *)
LEMMA CopyStep ==
  ASSUME RouteInv, Rows, NEW k \in Key, NEW s \in Server,
         UNCHANGED <<config, up, route, files, wire, asked, irregular, intact>>,
         NEW c, cache' = [cache EXCEPT ![s][k] = c],
         NEW d, db' = [db EXCEPT ![k] = d],
         NEW w, written' = [written EXCEPT ![k] = w],
         overtaken \subseteq overtaken', \A j \in Key \ {k} : j \in evicted' <=> j \in evicted,
         ~irregular /\ ~cascading /\ k \notin overtaken' /\ Row(k) => Row(k)'
  PROVE  Rows'
<1> USE DEF route
<1>1. ASSUME NEW j \in Key, j # k PROVE SamePlace(j) /\ SameData(j)
  BY <1>1, FilesKept DEF SameData, RouteInv, TypeOK, Server
<1> QED BY <1>1, OneKey

(* A Get goes to a server that has the last write, and leaves it in the cache there. *)
LEMMA GetRows ==
  ASSUME RouteInv, Rows, NEW k \in Key, Get(k)
  PROVE  Rows'
<1>1. PICK s \in Server : s = destination(k)
  BY DEF destination, Server
<1>2. PICK c : c = IF cache[s][k] = None THEN Clean(db[k]) ELSE cache[s][k]
  OBVIOUS
<1>3. /\ up = "running" /\ View(s, k) # None
      /\ UNCHANGED <<config, up, route, files, wire, asked, irregular, intact, db, written>>
      /\ UNCHANGED <<overtaken, evicted>>
      /\ cache' = [cache EXCEPT ![s][k] = c]
      /\ db' = [db EXCEPT ![k] = db[k]] /\ written' = [written EXCEPT ![k] = written[k]]
  BY <1>1, <1>2 DEF Get, Admitted, RouteInv, TypeOK, Server, past
<1>4. ASSUME ~irregular, ~cascading, Row(k) PROVE Row(k)'
  <2>1. /\ s = IF Moved(k) THEN "B" ELSE "A"
        /\ Untouched(k) => ~Moved(k)
        /\ InPlace(k) /\ NothingOld(k)
    BY <1>1, <1>3, <1>4, Destination DEF Row, RouteInv, FilesAgree
  <2>2. SamePlace(k)
    BY <1>3, FilesKept
  <2>3. /\ cache'[s][k] = c /\ \A t \in Server \ {s} : cache'[t][k] = cache[t][k]
        /\ cache[s][k] \in Copy \cup {None}
    BY <1>3, SMT DEF RouteInv, TypeOK, Server
  <2>4. c # None /\ Current(k, c)
    <3>1. Holds(s, k)
      BY <2>1 DEF InPlace
    <3>2. CASE cache[s][k] = None
      <4>1. db[k] \in Version
        BY DEF RouteInv, TypeOK
      <4>2. c = [v |-> db[k], dirty |-> FALSE] /\ c \in Copy
        BY <1>2, <3>2, <4>1 DEF Clean, Copy
      <4>3. db[k] = written[k]
        BY <1>3, <3>1, <3>2 DEF Holds, Backed, View
      <4> QED BY <4>2, <4>3, NoneAssumption DEF Current
    <3>3. CASE cache[s][k] # None
      BY <1>2, <3>1, <3>3 DEF Holds
    <3> QED BY <3>2, <3>3
  <2>5. (\A x : Current(k, x)' <=> Current(k, x)) /\ mode' = mode
    BY <1>3, CurrentKept
  <2>6. Holds(s, k)' /\ \A t \in Server \ {s} : Holds(t, k)' <=> Holds(t, k)
    BY <1>3, <2>3, <2>4, <2>5 DEF Holds, Backed
  <2>7. NothingOld(k)'
    BY <1>3, <2>1, <2>2, <2>3, <2>4, <2>5 DEF NothingOld, SamePlace, Moved, Server
  <2>8. ~load_fails' => InPlace(k)'
    BY <1>3, <2>1, <2>2, <2>3, <2>6 DEF InPlace, SamePlace, Moved, Server
  <2> QED BY <2>7, <2>8 DEF Row
<1> QED BY <1>3, <1>4, CopyStep

(* A write changes the only copy that counts: B has heard nothing of the key, or has it and *)
(* nothing of the key is under way any more.                                                *)
LEMMA WriteRows ==
  ASSUME RouteInv, Rows, NEW k \in Key, Write(k)
  PROVE  Rows'
<1>1. PICK s \in Server : s = destination(k)
  BY SMT DEF destination, Server
<1>2. PICK w : w = written[k] + 1
  OBVIOUS
<1>3. /\ up = "running" /\ asked[k] = "no"
      /\ ~refused(k, "Update")
      /\ overtaken \subseteq overtaken' /\ \A j \in Key \ {k} : j \in evicted' <=> j \in evicted
      /\ s = "B" /\ wire[k] # << >> => k \in overtaken'
      /\ UNCHANGED <<config, up, route, files, wire, asked, irregular, intact>>
      /\ w \in Version /\ written' = [written EXCEPT ![k] = w]
      /\ mode \in {"SYNC", "ASYNC", "CACHE_ONLY"}
      /\ cache[s][k] \in Copy \cup {None}
  BY <1>1, <1>2, MigrateAssumption
  DEF Write, Admitted, RouteInv, TypeOK, Configuration, mode, Server
<1>4. PICK c, d : /\ cache' = [cache EXCEPT ![s][k] = c] /\ db' = [db EXCEPT ![k] = d]
                  /\ \/ mode = "SYNC" /\ d = w /\ c \in {None, Clean(w)}
                     \/ mode = "ASYNC" /\ c = [v |-> w, dirty |-> TRUE]
                     \/ mode = "CACHE_ONLY" /\ c = Clean(w)
  <2>1. CASE mode = "SYNC"
    BY <1>1, <1>2, <1>3, <2>1 DEF Write
  <2>2. db = [db EXCEPT ![k] = db[k]]
    BY DEF RouteInv, TypeOK
  <2>3. CASE mode = "ASYNC"
    BY <1>1, <1>2, <2>2, <2>3 DEF Write
  <2>4. CASE mode = "CACHE_ONLY"
    BY <1>1, <1>2, <2>2, <2>4 DEF Write
  <2> QED BY <1>3, <2>1, <2>3, <2>4
<1>5. ASSUME ~irregular, ~cascading, k \notin overtaken', Row(k) PROVE Row(k)'
  <2>1. /\ s = IF Moved(k) THEN "B" ELSE "A"
        /\ Untouched(k) => ~Moved(k)
        /\ ~Moved(k) => Untouched(k)
        /\ InPlace(k) /\ NothingOld(k)
    BY <1>1, <1>3, <1>5, Destination DEF Row, RouteInv, FilesAgree
  <2>2. SamePlace(k) /\ mode' = mode
    BY <1>3, FilesKept DEF mode
  <2>3. /\ cache'[s][k] = c /\ \A t \in Server \ {s} : cache'[t][k] = cache[t][k]
        /\ db'[k] = d /\ written'[k] = w
    BY <1>3, <1>4 DEF RouteInv, TypeOK, Server
  <2>4. wire'[k] = << >> /\ asked'[k] = "no"
    BY <1>3, <1>5, <2>1 DEF InPlace
  <2>5. Clean(w) # None /\ [v |-> w, dirty |-> TRUE] # None
    <3>1. Clean(w) \in Copy /\ [v |-> w, dirty |-> TRUE] \in Copy
      BY <1>3 DEF Copy, Clean
    <3> QED BY <3>1, NoneAssumption
  <2>6. /\ c # None => Current(k, c)'
        /\ Holds(s, k)'
    BY <1>4, <2>2, <2>3, <2>5, SMT DEF Current, Holds, Backed, Clean
  <2>7. NothingOld(k)'
    <3>1. CASE s = "A"
      BY <1>4, <2>1, <2>2, <2>3, <2>4, <2>6, <3>1, SMT
      DEF NothingOld, InPlace, SamePlace, Moved, Server
    <3>2. CASE s = "B"
      BY <1>4, <2>1, <2>2, <2>3, <2>4, <2>6, <3>2, SMT
      DEF NothingOld, InPlace, SamePlace, Moved, Server
    <3> QED BY <3>1, <3>2 DEF Server
  <2>8. ~load_fails' => InPlace(k)'
    BY <2>1, <2>2, <2>3, <2>4, <2>6 DEF InPlace, SamePlace, Moved, Server
  <2> QED BY <2>7, <2>8, SMT DEF Row
<1> QED BY <1>3, <1>4, <1>5, CopyStep

(* A dirty copy is the last write, and so the database has it afterwards. *)
LEMMA FlushRows ==
  ASSUME RouteInv, Rows, NEW k \in Key, NEW s \in Server, Flush(s, k)
  PROVE  Rows'
<1>1. PICK c : c = [cache[s][k] EXCEPT !.dirty = FALSE]
  OBVIOUS
<1>2. cache[s][k] \in Copy /\ cache[s][k] # None /\ cache[s][k].dirty
  BY SMT DEF Flush, RouteInv, TypeOK
<1>3. c \in Copy /\ c # None /\ c.v = cache[s][k].v /\ ~c.dirty
  <2>1. c \in Copy /\ c.v = cache[s][k].v /\ ~c.dirty
    BY <1>1, <1>2 DEF Copy
  <2> QED BY <2>1, NoneAssumption
<1>4. PICK d : d = cache[s][k].v
  OBVIOUS
<1>5. /\ UNCHANGED <<config, up, route, files, wire, asked, irregular, intact, written>>
      /\ UNCHANGED <<overtaken, evicted>>
      /\ cache' = [cache EXCEPT ![s][k] = c]
      /\ db' = [db EXCEPT ![k] = d] /\ written' = [written EXCEPT ![k] = written[k]]
  BY <1>1, <1>4 DEF Flush, RouteInv, TypeOK, past
<1>6. ASSUME ~irregular, ~cascading, Row(k) PROVE Row(k)'
  <2>1. SamePlace(k) /\ mode' = mode
    BY <1>5, FilesKept DEF mode
  <2>2. /\ cache'[s][k] = c /\ \A t \in Server \ {s} : cache'[t][k] = cache[t][k]
        /\ db'[k] = d /\ written'[k] = written[k]
        /\ wire' = wire /\ asked' = asked
    BY <1>5 DEF RouteInv, TypeOK, Server
  <2>3. Current(k, cache[s][k]) /\ (s = "A" => SavedState # "COMPLETED")
    BY <1>2, <1>6 DEF Row, NothingOld, Server
  <2>4. d = written[k] /\ c.v = written[k]
    BY <1>3, <1>4, <2>3 DEF Current
  <2>5. (\A x : Current(k, x) => Current(k, x)') /\ Current(k, c)'
    BY <1>3, <2>1, <2>2, <2>4 DEF Current
  <2>6. Holds(s, k)' /\ \A t \in Server \ {s} : Holds(t, k) => Holds(t, k)'
    BY <1>3, <1>5, <2>1, <2>2, <2>4, <2>5 DEF Holds, Backed
  <2>7. NothingOld(k)'
    BY <1>3, <1>6, <2>1, <2>2, <2>3, <2>4, <2>5
       DEF Row, NothingOld, SamePlace, Server
  <2>8. ~load_fails' => InPlace(k)'
    BY <1>2, <1>6, <2>1, <2>2, <2>6 DEF Row, InPlace, SamePlace, Moved, Server
  <2> QED BY <2>7, <2>8 DEF Row
<1> QED BY <1>5, <1>6, CopyStep

(* The database has a clean copy that is evicted, unless it is one that nobody serves, or *)
(* there is no database and the row is gone.                                              *)
LEMMA EvictRows ==
  ASSUME RouteInv, Rows, NEW k \in Key, NEW s \in Server, Evict(s, k)
  PROVE  Rows'
<1>1. /\ UNCHANGED <<config, up, route, files, wire, asked, irregular, intact, db, written>>
      /\ cache[s][k] # None /\ ~cache[s][k].dirty
      /\ cache' = [cache EXCEPT ![s][k] = None]
      /\ db' = [db EXCEPT ![k] = db[k]] /\ written' = [written EXCEPT ![k] = written[k]]
      /\ overtaken' = overtaken /\ (mode = "CACHE_ONLY" => k \in evicted')
      /\ \A j \in Key \ {k} : j \in evicted' <=> j \in evicted
  BY DEF Evict, RouteInv, TypeOK
<1>2. ASSUME ~irregular, ~cascading, Row(k) PROVE Row(k)'
  <2>1. SamePlace(k) /\ mode' = mode
    BY <1>1, FilesKept DEF mode
  <2>2. cache'[s][k] = None /\ \A t \in Server \ {s} : cache'[t][k] = cache[t][k]
    BY <1>1 DEF RouteInv, TypeOK, Server
  <2>3. \A x : Current(k, x)' <=> Current(k, x)
    BY <1>1, CurrentKept
  <2>4. \A t \in Server : Holds(t, k) => Holds(t, k)'
    BY <1>1, <2>1, <2>2, <2>3 DEF Holds, Backed, Current
  <2>5. NothingOld(k)'
    BY <1>1, <1>2, <2>1, <2>2, <2>3 DEF Row, NothingOld, SamePlace, Server
  <2>6. ~load_fails' => InPlace(k)'
    BY <1>1, <1>2, <2>1, <2>2, <2>4 DEF Row, InPlace, SamePlace, Moved, Server
  <2> QED BY <2>5, <2>6, SMT DEF Row
<1> QED BY <1>1, <1>2, CopyStep

(* Migrate takes the row from a copy of A that is the last write. *)
LEMMA MigrateRows ==
  ASSUME RouteInv, Rows, NEW k \in Key, Migrate(k)
  PROVE  Rows'
<1>1. PICK m : m = [v |-> cache["A"][k].v, dirty |-> cache["A"][k].dirty, awaited |-> TRUE]
  OBVIOUS
<1>2. /\ up = "running" /\ in_migration(state) /\ asked[k] = "no"
      /\ cache["A"][k] # None /\ cache["A"][k] \in Copy /\ wire[k] \in Seq(Message)
      /\ state = SavedState /\ index = Recorded /\ ~load_fails
      /\ keyfile \in [Key -> Status \cup {None}]
      /\ UNCHANGED <<config, cascading, irregular, cfgfile, statfile, data>>
      /\ wire' = [wire EXCEPT ![k] = Append(@, m)] /\ asked' = [asked EXCEPT ![k] = "sent"]
  BY <1>1, SMT DEF Migrate, RouteInv, TypeOK, FilesAgree, Server
<1>3. /\ keyfile' \in [Key -> Status \cup {None}]
      /\ \A j \in Key : j # k => keyfile'[j] = keyfile[j]
      /\ keyfile[k] # None => keyfile'[k] = keyfile[k]
      /\ keyfile[k] = None => keyfile'[k] = "START"
  BY <1>2 DEF Migrate, Recorded, Status
<1>4. SavedState' = SavedState /\ load_fails' = load_fails
  <2>1. keyfile # None /\ keyfile' # None
    BY <1>2, <1>3, NoneAssumption
  <2> QED BY <1>2, <2>1 DEF SavedState, load_fails
<1>5. ASSUME NEW j \in Key, j # k
      PROVE  SamePlace(j) /\ SameData(j) /\ wire'[j] = wire[j] /\ asked'[j] = asked[j]
  BY <1>2, <1>3, <1>4, <1>5
     DEF SamePlace, SameData, Untouched, Marked, data, past, RouteInv, TypeOK
<1>6. ASSUME ~irregular, ~cascading, Row(k) PROVE Row(k)'
  <2>1. InPlace(k) /\ NothingOld(k)
    BY <1>2, <1>6 DEF Row
  <2>2. ~Marked(k) /\ SavedState # "COMPLETED" /\ in_migration(SavedState)
    BY <1>2, <2>1 DEF InPlace, in_migration
  <2>3. ~Untouched(k)' /\ ~Marked(k)'
    <3>1. None # "START" /\ SavedState # "NOT_STARTED"
      BY <1>2, NoneAssumption DEF Status, in_migration
    <3> QED BY <1>3, <1>4, <2>2, <3>1 DEF Untouched, Marked
  <2>4. SameData(k) /\ mode' = mode
    BY <1>2 DEF SameData, data, past, mode
  <2>5. \A x : Current(k, x)' <=> Current(k, x)
    BY <2>4, CurrentKept DEF SameData
  <2>6. Current(k, m) /\ m \in Message
    BY <1>1, <1>2, <2>1, <2>2 DEF NothingOld, Current, Message, Copy
  <2>7. /\ wire'[k] = Append(wire[k], m) /\ asked'[k] = "sent"
        /\ DOMAIN wire'[k] = 1 .. Len(wire[k]) + 1 /\ DOMAIN wire[k] = 1 .. Len(wire[k])
        /\ \A i \in 1 .. Len(wire[k]) : wire'[k][i] = wire[k][i]
        /\ wire'[k][Len(wire[k]) + 1] = m
        /\ Len(wire[k]) \in Nat
    <3>1. wire'[k] = Append(wire[k], m) /\ asked'[k] = "sent"
      BY <1>2 DEF RouteInv, TypeOK
    <3> QED BY <1>2, <2>6, <3>1, AppendFacts, LenProperties, SMT
  <2>8. ASSUME NEW i \in DOMAIN wire'[k] PROVE Current(k, wire'[k][i])
    <3>1. i \in 1 .. Len(wire[k]) \/ i = Len(wire[k]) + 1
      BY <2>7, SMT
    <3>2. CASE i \in 1 .. Len(wire[k])
      BY <2>1, <2>7, <3>2 DEF NothingOld
    <3>3. CASE i = Len(wire[k]) + 1
      BY <2>6, <2>7, <3>3
    <3> QED BY <3>1, <3>2, <3>3
  <2>9. NothingOld(k)'
    BY <1>4, <2>1, <2>2, <2>4, <2>5, <2>8 DEF NothingOld, SameData
  <2>10. Holds("A", k)'
    BY <2>1, <2>2, <2>4, <2>5 DEF InPlace, Moved, Holds, Backed, SameData
  <2> QED BY <1>4, <2>2, <2>3, <2>7, <2>9, <2>10 DEF Row, InPlace, Moved
<1> QED BY <1>2, <1>5, <1>6, OneKey DEF data, past

(* What is under way after a request has left the wire *)
LEMMA RemovedCurrent ==
  ASSUME NEW k \in Key, wire[k] \in Seq(Message), NEW i \in DOMAIN wire[k], NothingOld(k)
  PROVE  /\ Current(k, wire[k][i]) /\ wire[k][i] \in Message
         /\ \A j \in DOMAIN Taken(wire[k], i) :
              Current(k, Taken(wire[k], i)[j])
<1> DEFINE q == wire[k]
           rest == Taken(q, i)
<1>1. /\ Len(q) \in Nat \ {0} /\ i \in 1 .. Len(q) /\ q[i] \in Message
      /\ DOMAIN rest = 1 .. Len(q) - 1
      /\ \A j \in 1 .. Len(q) - 1 : rest[j] = IF j < i THEN q[j] ELSE q[j + 1]
      /\ DOMAIN q = 1 .. Len(q)
  BY RemovedFacts, LenProperties
<1>2. \A j \in DOMAIN q : Current(k, q[j])
  BY DEF NothingOld
<1> HIDE DEF q, rest
<1>3. \A j \in DOMAIN rest : Current(k, q[j]) /\ Current(k, q[j + 1])
  BY <1>1, <1>2, SMT
<1> QED BY <1>1, <1>2, <1>3 DEF q, rest

(* A request that is lost takes no row with it: A has its copy until B has answered. *)
LEMMA LoseRows ==
  ASSUME RouteInv, Rows, NEW k \in Key, Lose(k)
  PROVE  Rows'
<1>1. PICK i \in DOMAIN wire[k] : wire' = [wire EXCEPT ![k] = Taken(@, i)]
  BY DEF Lose
<1>2. /\ wire[k] \in Seq(Message) /\ wire[k] # << >>
      /\ wire'[k] = Taken(wire[k], i) /\ \A j \in Key \ {k} : wire'[j] = wire[j]
      /\ UNCHANGED <<config, cascading, files, data, asked, irregular>>
  BY <1>1, RemovedFacts DEF Lose, RouteInv, TypeOK, route
<1>3. ASSUME NEW j \in Key PROVE SamePlace(j) /\ SameData(j)
  BY <1>2, FilesKept DEF SameData, data, past
<1>4. ASSUME ~irregular, ~cascading, Row(k) PROVE Row(k)'
  <2>1. \A x : Current(k, x)' <=> Current(k, x)
    BY <1>3, CurrentKept DEF SameData
  <2>2. \A t \in Server : Holds(t, k)' <=> Holds(t, k)
    BY <1>3, HoldsKept DEF SameData, Server
  <2>3. \A j \in DOMAIN wire'[k] : Current(k, wire'[k][j])
    BY <1>2, <1>4, RemovedCurrent DEF Row
  <2>4. NothingOld(k)'
    BY <1>3, <1>4, <2>1, <2>3 DEF Row, NothingOld, SameData, SamePlace, mode
  <2>5. ~load_fails' => InPlace(k)'
    BY <1>2, <1>3, <1>4, <2>2 DEF Row, InPlace, Moved, SameData, SamePlace, Server
  <2> QED BY <2>4, <2>5 DEF Row
<1> QED BY <1>2, <1>3, <1>4, OneKey DEF data, past

(* B replaces its copy by the last write, or purges it when the database has the last write. *)
LEMMA DeliverRows ==
  ASSUME Sheltered, RouteInv, Rows, NEW k \in Key, buffer_migrate(k)
  PROVE  Rows'
<1>1. PICK i \in DOMAIN wire[k], outcome \in {"ok", "no node", "no room"}, lost \in BOOLEAN :
        /\ outcome # "ok" => config.scarce
        /\ cache' = [cache EXCEPT !["B"][k] = Replaced(wire[k][i], outcome, @)]
        /\ wire' = [wire EXCEPT ![k] = Taken(@, i)]
        /\ asked' = [asked EXCEPT ![k] =
                        IF wire[k][i].awaited /\ ~lost THEN Answered(outcome) ELSE @]
        /\ UNCHANGED <<config, up, route, files, db, past, irregular, intact>>
  BY DEF buffer_migrate
<1>2. PICK m : m = wire[k][i]
  OBVIOUS
<1>3. /\ wire[k] \in Seq(Message) /\ cache["B"][k] \in Copy \cup {None}
      /\ mode \in {"SYNC", "ASYNC", "CACHE_ONLY"}
      /\ outcome # "ok" => mode # "ASYNC"
      /\ written' = written /\ evicted' = evicted /\ overtaken' = overtaken /\ db' = db
  BY <1>1, MigrateAssumption
  DEF RouteInv, TypeOK, Configuration, mode, Sheltered, Server, past
<1>4. PICK c : c = Replaced(m, outcome, cache["B"][k])
  OBVIOUS
<1>5. /\ cache' = [cache EXCEPT !["B"][k] = c]
      /\ cache'["B"][k] = c /\ cache'["A"] = cache["A"]
      /\ \A j \in Key \ {k} : cache'["B"][j] = cache["B"][j]
      /\ wire'[k] = Taken(wire[k], i) /\ \A j \in Key \ {k} : wire'[j] = wire[j]
      /\ asked'[k] = (IF m.awaited /\ ~lost THEN Answered(outcome) ELSE asked[k])
      /\ \A j \in Key \ {k} : asked'[j] = asked[j]
  BY <1>1, <1>2, <1>4 DEF RouteInv, TypeOK, Server
<1>6. ASSUME NEW j \in Key PROVE SamePlace(j)
  BY <1>1, FilesKept
<1>7. \A j \in Key \ {k} : SameData(j)
  BY <1>1, <1>3, <1>5 DEF SameData
<1>8. ASSUME ~irregular, ~cascading, Row(k) PROVE Row(k)'
  <2>1. NothingOld(k)
    BY <1>8 DEF Row
  <2>2. /\ Current(k, m) /\ m \in Message
        /\ \A j \in DOMAIN wire'[k] : Current(k, wire'[k][j])
    BY <1>2, <1>3, <1>5, <2>1, RemovedCurrent
  <2>3. (\A x : Current(k, x)' <=> Current(k, x)) /\ mode' = mode
    BY <1>1, <1>3, CurrentKept
  <2>4. /\ c # None => Current(k, c)
        /\ c = None => \/ mode = "SYNC" /\ db[k] = written[k]
                       \/ c = cache["B"][k] /\ Answered(outcome) = "failed"
        /\ Holds("B", k) \/ Answered(outcome) = "moved" => Holds("B", k)'
    <3>1. CASE outcome = "ok"
      <4>1. c \in Copy /\ c.v = m.v /\ c.dirty = m.dirty
        BY <1>4, <2>2, <3>1 DEF Replaced, Copy, Message
      <4>2. c # None /\ Current(k, c)
        BY <2>2, <4>1, NoneAssumption DEF Current
      <4> QED BY <1>5, <2>3, <4>2 DEF Holds
    <3>2. CASE outcome = "no node" \/ (outcome = "no room" /\ mode = "CACHE_ONLY")
      <4>1. c = cache["B"][k] /\ Answered(outcome) = "failed"
        BY <1>4, <3>2 DEF Replaced, Answered
      <4>2. Holds("B", k)' <=> Holds("B", k)
        BY <1>1, <1>3, <1>5, <4>1, HoldsKept
      <4> QED BY <2>1, <4>1, <4>2 DEF NothingOld
    <3>3. CASE outcome = "no room" /\ mode # "CACHE_ONLY"
      <4>1. mode = "SYNC" /\ db[k] = written[k] /\ c = None
        BY <1>3, <1>4, <2>1, <3>3 DEF NothingOld, Replaced
      <4>2. Holds("B", k)'
        BY <1>3, <1>5, <2>3, <4>1 DEF Holds, Backed
      <4> QED BY <4>1, <4>2
    <3> QED BY <3>1, <3>2, <3>3
  <2>5. NothingOld(k)'
    BY <1>3, <1>5, <1>6, <2>1, <2>2, <2>3, <2>4 DEF NothingOld, SamePlace
  <2>6. ASSUME ~load_fails' PROVE InPlace(k)'
    <3>1. /\ InPlace(k)
          /\ SavedState' = "COMPLETED" <=> SavedState = "COMPLETED"
          /\ Untouched(k)' <=> Untouched(k)
          /\ Marked(k)' <=> Marked(k)
      BY <1>6, <1>8, <2>6 DEF Row, SamePlace
    <3>2. ~Untouched(k)
      BY <1>3, <3>1, RemovedFacts DEF InPlace
    <3>3. Holds("A", k)' <=> Holds("A", k)
      BY <1>3, <1>5, <2>3 DEF Holds, Backed
    <3>4. asked'[k] = "moved" => Answered(outcome) = "moved" \/ asked[k] = "moved"
      BY <1>5
    <3>5. Moved(k)' \/ asked'[k] = "moved" => Holds("B", k)'
      BY <2>4, <3>1, <3>4 DEF InPlace, Moved
    <3> QED BY <1>5, <3>1, <3>2, <3>3, <3>5 DEF InPlace, Moved
  <2> QED BY <2>5, <2>6 DEF Row
<1> QED BY <1>1, <1>3, <1>5, <1>6, <1>7, <1>8, OneKey DEF route

(* A's copy goes when B has the row and the file says so. *)
LEMMA AnswerRows ==
  ASSUME RouteInv, Rows, NEW k \in Key, job_answer_procedure(k)
  PROVE  Rows'
<1>1. /\ up = "running" /\ asked[k] = "moved"
      /\ state = SavedState /\ state \in NodeState /\ ~load_fails
      /\ in_migration(state) => index = Recorded /\ keyfile \in [Key -> Status \cup {None}]
      /\ keyfile' = IF in_migration(state) /\ k \in index
                    THEN [keyfile EXCEPT ![k] = "SUCCESS"] ELSE keyfile
      /\ asked'[k] = "no" /\ \A j \in Key \ {k} : asked'[j] = asked[j]
      /\ cache'["A"][k] = None /\ cache'["B"] = cache["B"]
      /\ \A j \in Key \ {k} : cache'["A"][j] = cache["A"][j]
      /\ UNCHANGED <<config, cascading, cfgfile, statfile, db, written, wire, irregular>>
      /\ UNCHANGED <<overtaken, evicted>>
  BY DEF job_answer_procedure, key_migrated, RouteInv, TypeOK, FilesAgree, Server, route, past
<1>2. SavedState' = SavedState /\ load_fails' = load_fails
  <2>1. in_migration(state) => keyfile # None /\ keyfile' # None
    <3>1. in_migration(state) => keyfile' \in [Key -> Status \cup {None}]
      BY <1>1 DEF Status
    <3> QED BY <1>1, <3>1, NoneFacts
  <2>2. in_migration(statfile) => in_migration(state)
    BY <1>1 DEF SavedState, in_migration, NodeState
  <2> QED BY <1>1, <2>1, <2>2 DEF SavedState, load_fails
<1>3. ASSUME NEW j \in Key, j # k PROVE SamePlace(j) /\ SameData(j)
  <2>1. in_migration(state) => keyfile'[j] = keyfile[j]
    BY <1>1, <1>3
  <2> QED BY <1>1, <1>2, <1>3, <2>1 DEF SamePlace, SameData, Untouched, Marked
<1>4. ASSUME ~irregular, ~cascading, Row(k) PROVE Row(k)'
  <2>1. InPlace(k) /\ NothingOld(k)
    BY <1>1, <1>4 DEF Row
  <2>2. Holds("B", k) /\ ~Untouched(k)
    BY <1>1, <2>1 DEF InPlace
  <2>3. SavedState = "COMPLETED" \/ (in_migration(SavedState) /\ keyfile[k] # None)
    <3>1. SavedState \in NodeState
      BY <1>1
    <3> QED BY <2>2, <3>1 DEF Untouched, NodeState, in_migration
  <2>4. SavedState' = "COMPLETED" \/ Marked(k)'
    BY <1>1, <1>2, <2>3 DEF Recorded, Marked
  <2>5. ~Untouched(k)'
    BY <1>2, <2>4, NoneAssumption DEF Untouched, Marked, Status, in_migration
  <2>6. (\A x : Current(k, x)' <=> Current(k, x)) /\ mode' = mode
    BY <1>1, CurrentKept
  <2>7. Holds("B", k)'
    BY <1>1, <2>2, <2>6 DEF Holds, Backed
  <2>8. NothingOld(k)'
    BY <1>1, <1>2, <2>1, <2>6 DEF NothingOld
  <2> QED BY <1>1, <2>4, <2>5, <2>7, <2>8 DEF Row, InPlace, Moved
<1> QED BY <1>1, <1>3, <1>4, OneKey

(* A step that takes no row away: requests may be forgotten, files may change as long as *)
(* they put every key where it was or cannot be started from.                            *)
LEMMA AllKept ==
  ASSUME RouteInv, Rows,
         ~irregular' => ~irregular,
         cascading' = cascading \/ ~cascading', overtaken' = overtaken,
         ~irregular' => \A k \in Key : SamePlace(k) /\ SameData(k),
         \A k \in Key : wire'[k] = wire[k] \/ wire'[k] = Forgotten(wire[k]),
         \A k \in Key : asked'[k] = asked[k] \/ asked'[k] = "no"
  PROVE  Rows'
<1> SUFFICES ASSUME ~irregular' PROVE ~cascading' /\ \A k \in Key \ overtaken : Row(k)'
  BY DEF Rows
<1>1. ~cascading' /\ \A k \in Key \ overtaken : Row(k) /\ wire[k] \in Seq(Message)
  BY SMT DEF Rows, RouteInv, TypeOK
<1>2. ASSUME NEW k \in Key \ overtaken PROVE Row(k)'
  BY <1>1, RowKept
<1> QED BY <1>1, <1>2

(* After an error answer A still has its copy, and the key stays where it was. *)
LEMMA ErrorRows ==
  ASSUME RouteInv, Rows, NEW k \in Key, job_answer_error(k)
  PROVE  Rows'
<1>1. /\ UNCHANGED <<config, cascading, files, data, irregular>>
      /\ \A j \in Key : wire'[j] = wire[j] \/ wire'[j] = Forgotten(wire[j])
      /\ \A j \in Key : asked'[j] = asked[j] \/ asked'[j] = "no"
  BY DEF job_answer_error, RouteInv, TypeOK, route
<1>2. ASSUME NEW j \in Key PROVE SamePlace(j) /\ SameData(j)
  BY <1>1, FilesKept DEF SameData, data, past
<1> QED BY <1>1, <1>2, AllKept DEF data, past

(* A kill loses no copy: the cache is in shared memory. *)
LEMMA CrashRows ==
  ASSUME RouteInv, Rows, Crash
  PROVE  Rows'
<1>1. /\ UNCHANGED <<config, files, data, irregular>> /\ ~cascading'
      /\ \A j \in Key : wire'[j] = Forgotten(wire[j]) /\ asked'[j] = "no"
  BY DEF Crash, Kill
<1>2. ASSUME NEW j \in Key PROVE SamePlace(j) /\ SameData(j)
  BY <1>1, FilesKept DEF SameData, data, past
<1> QED BY <1>1, <1>2, AllKept DEF data, past

(* A killed after the purge: only with write-through, where the database has every row *)
LEMMA AnswerKilledRows ==
  ASSUME Sheltered, RouteInv, Rows, NEW k \in Key, job_answer_killed(k)
  PROVE  Rows'
<1>1. /\ UNCHANGED <<config, files, db, written, overtaken, evicted, irregular>> /\ ~cascading'
      /\ \A j \in Key : wire'[j] = Forgotten(wire[j]) /\ asked'[j] = "no"
      /\ cache'["A"][k] = None /\ cache'["B"] = cache["B"]
      /\ \A j \in Key \ {k} : cache'["A"][j] = cache["A"][j]
      /\ \A j \in Key : wire[j] \in Seq(Message)
      /\ mode = "SYNC" /\ mode' = mode
  BY DEF job_answer_killed, Kill, RouteInv, TypeOK, Server, Sheltered, mode, past
<1>2. ASSUME NEW j \in Key PROVE SamePlace(j)
  BY <1>1, FilesKept
<1> SUFFICES ASSUME ~irregular, NEW j \in Key \ overtaken PROVE Row(j)'
  BY <1>1 DEF Rows
<1>3. Row(j)
  BY DEF Rows
<1>4. CASE j # k
  <2>1. SameData(j)
    BY <1>1, <1>4 DEF SameData
  <2> QED BY <1>1, <1>2, <1>3, <2>1, RowKept
<1>5. CASE j = k
  <2>1. /\ DOMAIN wire'[k] = DOMAIN wire[k]
        /\ \A i \in DOMAIN wire[k] : /\ wire'[k][i].v = wire[k][i].v
                                     /\ wire'[k][i].dirty = wire[k][i].dirty
        /\ wire[k] = << >> => wire'[k] = << >>
    BY <1>1, ForgottenFacts, SMT
  <2>2. db' = db /\ written' = written /\ db[k] = written[k]
    BY <1>1, <1>3, <1>5 DEF Row, NothingOld
  <2>3. (\A x : Current(k, x)' <=> Current(k, x)) /\ (Holds("B", k)' <=> Holds("B", k))
    BY <1>1, <2>2, CurrentKept, HoldsKept
  <2>4. Holds("A", k)'
    BY <1>1, <2>2 DEF Holds, Backed
  <2>5. NothingOld(k)'
    BY <1>1, <1>3, <1>5, <2>1, <2>2, <2>3 DEF Row, NothingOld, Current
  <2>6. ~load_fails' => InPlace(k)'
    BY <1>1, <1>2, <1>3, <1>5, <2>1, <2>3, <2>4 DEF Row, InPlace, Moved, SamePlace
  <2> QED BY <1>5, <2>5, <2>6 DEF Row
<1> QED BY <1>4, <1>5

(* SetClusterNodeState within the procedure: only COMPLETED puts keys elsewhere, and then *)
(* the database has every row that B does not.                                            *)
LEMMA StateChangeRows ==
  ASSUME RouteInv, Rows, NEW new \in NodeState, process_node_state_change(new)
  PROVE  Rows'
<1> SUFFICES ASSUME ~irregular' PROVE Rows'
  BY DEF Rows
<1>1. /\ up = "running" /\ table /\ new # state /\ cfgfile' = cfgfile /\ table = cfgfile
      /\ state = SavedState /\ state \in NodeState /\ ~load_fails
      /\ keyfile' = key_file_after(state, new)
      /\ ~irregular /\ Regular(state, new) /\ config' = config /\ UNCHANGED data
      /\ in_migration(state) => keyfile \in [Key -> Status \cup {None}]
  BY DEF process_node_state_change, RouteInv, FilesAgree, TypeOK
<1>2. /\ \A k \in Key : SameData(k) /\ wire[k] \in Seq(Message)
      /\ \A k \in Key \ overtaken : Row(k) /\ InPlace(k)
      /\ overtaken' = overtaken
  BY <1>1 DEF SameData, data, past, Rows, Row, RouteInv, TypeOK
<1>3. state # "COMPLETED" /\ (new # "COMPLETED" => in_migration(new))
  BY <1>1 DEF Regular, in_migration
<1>4. CASE /\ state' = new
           /\ save_state_to_file(table, new)
           /\ UNCHANGED <<up, table, cascading, wire, asked, intact>>
  <2>1. SavedState' = new
    BY <1>1, <1>4 DEF save_state_to_file, SavedState
  <2>2. CASE in_migration(new)
    <3>1. ASSUME NEW k \in Key PROVE SamePlace(k)
      <4>1. CASE in_migration(state)
        <5>1. keyfile' = keyfile
          BY <1>1, <2>2, <4>1 DEF key_file_after
        <5>2. /\ SavedState # "NOT_STARTED" /\ SavedState' # "NOT_STARTED"
              /\ SavedState # "COMPLETED" /\ SavedState' # "COMPLETED"
              /\ in_migration(SavedState) /\ in_migration(SavedState')
          BY <1>1, <2>1, <2>2, <4>1 DEF in_migration
        <5> QED BY <1>1, <5>1, <5>2 DEF SamePlace, Untouched, Marked
      <4>2. CASE ~in_migration(state)
        <5>1. SavedState = "NOT_STARTED" /\ keyfile' = EmptyKeyFile
          BY <1>1, <1>3, <2>2, <4>2 DEF key_file_after, NodeState, in_migration
        <5>2. Untouched(k) /\ ~Marked(k) /\ Untouched(k)' /\ ~Marked(k)'
          BY <2>1, <2>2, <5>1, NoneAssumption
          DEF Untouched, Marked, EmptyKeyFile, in_migration, Status
        <5>3. SavedState # "COMPLETED" /\ SavedState' # "COMPLETED"
          BY <2>1, <2>2, <5>1 DEF in_migration
        <5> QED BY <1>1, <5>2, <5>3 DEF SamePlace
      <4> QED BY <4>1, <4>2
    <3> QED BY <1>1, <1>2, <1>4, <3>1, AllKept
  <2>3. CASE new = "COMPLETED"
    <3>1. NothingLeft /\ SavedState = "MIGRATE_READONLY" /\ SavedState' = "COMPLETED"
      BY <1>1, <2>1, <2>3 DEF Regular, in_migration
    <3>2. ASSUME NEW k \in Key \ overtaken PROVE Row(k)'
      <4>1. /\ cache'["A"][k] = cache["A"][k] /\ cache'["B"][k] = cache["B"][k]
            /\ db'[k] = db[k] /\ written'[k] = written[k] /\ mode' = mode
            /\ wire'[k] = wire[k] /\ (k \in evicted' <=> k \in evicted)
            /\ NothingOld(k) /\ InPlace(k)
            /\ cache["A"][k] # None => mode # "CACHE_ONLY" /\ ~cache["A"][k].dirty
        BY <1>1, <1>2, <1>4, <3>1 DEF SameData, mode, Row, NothingLeft
      <4>2. \A x : Current(k, x)' <=> Current(k, x)
        BY <1>1, <4>1, CurrentKept
      <4>3. ~Moved(k) => Backed(k)
        BY <4>1 DEF InPlace, Holds, Backed, Current
      <4>4. Holds("B", k)
        BY <4>1, <4>3 DEF InPlace, NothingOld, Holds
      <4>5. Holds("B", k)' /\ ~Untouched(k)' /\ ~Marked(k)' /\ Moved(k)'
        BY <3>1, <4>1, <4>2, <4>4 DEF Holds, Backed, Untouched, Marked, Moved, in_migration
      <4>6. NothingOld(k)'
        BY <3>1, <4>1, <4>2 DEF NothingOld
      <4> QED BY <4>5, <4>6 DEF Row, InPlace
    <3> QED BY <1>1, <1>2, <1>4, <3>2 DEF Rows
  <2> QED BY <1>3, <2>2, <2>3
<1>5. ASSUME NEW point \in {"keyset", "open"}, NEW P, Kill(P),
             statfile' = IF point = "open" THEN "empty" ELSE statfile
      PROVE  Rows'
  <2>1. /\ ~cascading'
        /\ \A j \in Key : wire'[j] = Forgotten(wire[j]) /\ asked'[j] = "no"
    BY <1>5 DEF Kill
  <2>2. SavedState' # "COMPLETED"
    BY <1>1, <1>3, <1>5 DEF SavedState, NodeState
  <2>3. ASSUME NEW k \in Key, ~load_fails'
        PROVE  (Untouched(k)' <=> Untouched(k)) /\ (Marked(k)' <=> Marked(k))
    <3>1. statfile' = statfile /\ SavedState' = SavedState
      BY <1>5, <2>3 DEF load_fails, SavedState
    <3>2. in_migration(state) => in_migration(statfile)
      BY <1>1 DEF SavedState, in_migration
    <3>3. in_migration(state) => keyfile' = keyfile
      BY <1>1, <2>3, <3>1, <3>2 DEF load_fails, key_file_after
    <3> QED BY <1>1, <3>1, <3>3 DEF Untouched, Marked
  <2>4. \A k \in Key : SamePlace(k)
    BY <1>1, <1>3, <2>2, <2>3 DEF SamePlace
  <2> QED BY <1>1, <1>2, <2>1, <2>4, AllKept
<1> QED BY <1>4, <1>5 DEF process_node_state_change

(* ReloadClusterNodeList within the procedure: before the migration *)
LEMMA ReloadRows ==
  ASSUME RouteInv, Rows, NEW new \in BOOLEAN, process_reload(new)
  PROVE  Rows'
<1> SUFFICES ASSUME ~irregular' PROVE Rows'
  BY DEF Rows
<1>1. /\ up = "running" /\ state = "NOT_STARTED" /\ SavedState = "NOT_STARTED" /\ ~load_fails
      /\ ~irregular /\ config' = config /\ UNCHANGED data /\ keyfile' = keyfile
  BY DEF process_reload, RouteInv, FilesAgree
<1>2. overtaken' = overtaken /\ \A k \in Key : SameData(k)
  BY <1>1 DEF SameData, data, past
<1>3. /\ SavedState' = "NOT_STARTED"
      /\ cascading' = cascading \/ ~cascading'
      /\ \A k \in Key : wire'[k] = wire[k] \/ wire'[k] = Forgotten(wire[k])
      /\ \A k \in Key : asked'[k] = asked[k] \/ asked'[k] = "no"
  <2>1. CASE /\ save_state_to_file(new, "NOT_STARTED")
             /\ UNCHANGED <<up, index, cascading, wire, asked, intact>>
    BY <2>1 DEF save_state_to_file, SavedState, NodeState
  <2>2. ASSUME NEW point \in {"config", "open"}, NEW P, Kill(P),
               statfile' = IF point = "open" THEN "empty" ELSE statfile
        PROVE  <1>3!:
    BY <1>1, <2>2 DEF Kill, SavedState, NodeState
  <2> QED BY <2>1, <2>2 DEF process_reload
<1>4. ASSUME NEW k \in Key PROVE SamePlace(k)
  BY <1>1, <1>3 DEF SamePlace, Untouched, Marked, in_migration
<1> QED BY <1>1, <1>2, <1>3, <1>4, AllKept

(* The start of A and what the operator does outside of the procedure *)
LEMMA StartRows ==
  ASSUME RouteInv, Rows,
         load_node_state_if_any \/ start_fails \/ remove_state_file \/ process_cascade
  PROVE  Rows'
<1>1. CASE load_node_state_if_any \/ start_fails
  <2>1. UNCHANGED <<config, cascading, files, data, wire, asked, irregular>>
    BY <1>1 DEF load_node_state_if_any, start_fails, route
  <2>2. ASSUME NEW k \in Key PROVE SamePlace(k) /\ SameData(k)
    BY <2>1, FilesKept DEF SameData, data, past
  <2> QED BY <2>1, <2>2, AllKept DEF data, past
<1>2. CASE remove_state_file \/ process_cascade
  BY <1>2 DEF remove_state_file, process_cascade, Rows
<1> QED BY <1>1, <1>2

(* Before B joins A has every row, or the database has it. *)
LEMMA InitRows ==
  ASSUME Init
  PROVE  Rows
<1> USE DEF Init
<1> SUFFICES ASSUME NEW k \in Key PROVE Row(k)
  BY DEF Rows
<1>1. /\ SavedState = "NOT_STARTED" /\ ~in_migration(SavedState)
      /\ wire[k] = << >> /\ DOMAIN wire[k] = {} /\ asked[k] = "no"
      /\ db[k] = 0 /\ written[k] = 0
      /\ cache["B"][k] = None
      /\ cache["A"][k] = IF mode = "CACHE_ONLY" THEN Clean(0) ELSE None
  BY SMT DEF SavedState, NodeState, in_migration, Server
<1>2. Clean(0) \in Copy /\ Clean(0).v = 0 /\ ~Clean(0).dirty
  BY MigrateAssumption, SMT DEF Clean, Copy, Version
<1>3. Clean(0) # None
  BY <1>2, NoneAssumption
<1>4. Holds("A", k) /\ (cache["A"][k] # None => Current(k, cache["A"][k]))
  BY <1>1, <1>2, <1>3 DEF Holds, Backed, Current
<1>5. NothingOld(k)
  BY <1>1, <1>4 DEF NothingOld
<1>6. InPlace(k)
  BY <1>1, <1>4 DEF InPlace, Moved, Marked
<1> QED BY <1>5, <1>6 DEF Row

(* Every step keeps every row where the files of A put its key. *)
LEMMA NextRows ==
  ASSUME Sheltered, RouteInv, Rows, [Next]_vars
  PROVE  Rows'
<1>1. CASE UNCHANGED vars
  <2>1. UNCHANGED <<config, cascading, files, data, wire, asked, irregular>>
    BY <1>1 DEF vars, files, data, past
  <2>2. ASSUME NEW k \in Key PROVE SamePlace(k) /\ SameData(k)
    BY <2>1, FilesKept DEF SameData, data, past
  <2> QED BY <2>1, <2>2, AllKept DEF data, past
<1>2. CASE \E k \in Key : \/ Get(k) \/ Write(k)
                         \/ \E s \in Server : Flush(s, k) \/ Evict(s, k)
  BY <1>2, GetRows, WriteRows, FlushRows, EvictRows
<1>3. CASE \E k \in Key : Migrate(k) \/ buffer_migrate(k) \/ Lose(k)
  BY <1>3, MigrateRows, DeliverRows, LoseRows
<1>4. CASE \E k \in Key : job_answer_procedure(k) \/ job_answer_error(k)
  BY <1>4, AnswerRows, ErrorRows
<1>5. CASE Crash \/ \E k \in Key : job_answer_killed(k)
  BY <1>5, CrashRows, AnswerKilledRows
<1>6. CASE \E new \in NodeState : process_node_state_change(new)
  BY <1>6, StateChangeRows
<1>7. CASE \E new \in BOOLEAN : process_reload(new)
  BY <1>7, ReloadRows
<1>8. CASE load_node_state_if_any \/ start_fails \/ remove_state_file \/ process_cascade
  BY <1>8, StartRows
<1> QED BY <1>1, <1>2, <1>3, <1>4, <1>5, <1>6, <1>7, <1>8 DEF Next

(* Within the procedure, every row that may still count is the last write of its key. *)
THEOREM RowsInvariance ==
  ASSUME FixedSize, Sheltered
  PROVE  Spec => []Rows
<1>1. Init => Rows
  BY InitRows
<1>2. RouteInv /\ Rows /\ [Next]_vars => Rows'
  BY NextRows
<1> QED BY <1>1, <1>2, RouteInvariance, PTL DEF Spec

(***************************************************************************)
(* In a migration that follows the procedure job_ask_procedure always      *)
(* sends a request to a server that answers it with the last write, or has *)
(* evicted the row without a database to read it from: for every key that  *)
(* was not written on B while a Migrate of it was under way.               *)
(***************************************************************************)
THEOREM ServedCurrent ==
  ASSUME FixedSize, Sheltered
  PROVE  Spec => []ServedCopyIsCurrent
<1>1. RouteInv /\ Rows => ServedCopyIsCurrent
  <2> SUFFICES ASSUME RouteInv, Rows, up = "running", ~irregular, NEW k \in Key \ overtaken
               PROVE  \/ View(destination(k), k) = written[k]
                      \/ View(destination(k), k) = None /\ k \in evicted
    BY DEF ServedCopyIsCurrent
  <2>1. ~cascading /\ InPlace(k)
    BY DEF Rows, Row, RouteInv, FilesAgree
  <2>2. Holds(destination(k), k)
    BY <2>1, Destination DEF InPlace
  <2> QED BY <2>2 DEF Holds, Backed, Current, View
<1> QED BY <1>1, RouteInvariance, RowsInvariance, PTL

(***************************************************************************)
(* And neither server has a dirty copy that a late flush would put over a  *)
(* newer row of the database, again unless the key was written on B ahead  *)
(* of a Migrate of it.                                                     *)
(***************************************************************************)
THEOREM FlushCurrent ==
  ASSUME FixedSize, Sheltered
  PROVE  Spec => []NoStaleFlush
<1>1. Rows => NoStaleFlush
  <2> SUFFICES ASSUME Rows, ~irregular, NEW s \in Server, NEW k \in Key \ overtaken,
                      cache[s][k] # None, cache[s][k].dirty
               PROVE  cache[s][k].v = written[k]
    BY DEF NoStaleFlush
  <2>1. NothingOld(k)
    BY DEF Rows, Row
  <2> QED BY <2>1 DEF NothingOld, Current, Server
<1> QED BY <1>1, RowsInvariance, PTL
=============================================================================
