------------------------- MODULE ConfigCenterProofs -------------------------
(***************************************************************************)
(* Proofs about ConfigCenter, for any finite set of worker threads, any    *)
(* configurations the console sends and any number of calls and crashes.   *)
(***************************************************************************)
EXTENDS ConfigCenter, FiniteSetTheorems, TLAPS

-----------------------------------------------------------------------------
(* The inductive invariant.                                                *)

Idle == \A t \in Threads : pc[t] = "idle"

Mirrored == \A f \in MirrorFields : mirror[f] = inner[f]
Saved == disk[json] = Text(inner)
Built == \A f \in PartFields : runtime[f] = inner[f]

\* The history is right: calls have overlapped whenever two are under way, and
\* what a call that ran alone saved it may not have rebuilt.
OverlapTold ==
  /\ "saved" \in overlap => "built" \in overlap
  /\ "saved" \notin overlap =>
       \A t, u \in Threads : pc[t] # "idle" /\ pc[u] # "idle" => t = u

\* No call is served before load_or_init has written config.json.
BootAlone == booting # "no" => Idle

\* The temporary file is not config.json.
NamesApart == tmp # json

\* How far a call t that runs alone has brought the mirrors and config.json.
SavedSoFar(t) ==
  /\ pc[t] \in {"mirror", "truncate", "fill", "build"} => local[t] = inner
  /\ pc[t] = "mirror" =>
       \A i \in 1..Len(Mirrors) : i < step[t] => mirror[Mirrors[i]] = inner[Mirrors[i]]
  /\ pc[t] \in {"persist", "truncate", "fill", "rename", "rebuild", "build"} => Mirrored
  /\ pc[t] = "fill" => tmp # None /\ fd[t] = tmp /\ disk[tmp] = Empty
  /\ pc[t] = "rename" => tmp # None /\ disk[tmp] = Text(inner)
  /\ pc[t] \in {"rebuild", "build"} => Saved

SaveProgress ==
  "saved" \notin overlap =>
    /\ Idle => Mirrored /\ (booting = "no" => Saved)
    /\ \A t \in Threads : SavedSoFar(t)

\* How far a call t that runs alone has brought the runtime parts.  One that
\* does not rebuild leaves the fields they are made from alone.
BuiltSoFar(t) ==
  /\ pc[t] # "idle" /\ ~rebuild[t] => Built
  /\ pc[t] = "write" /\ ~rebuild[t] => \A f \in PartFields : local[t][f] = inner[f]
  /\ pc[t] \in {"rebuild", "build"} => rebuild[t]
  /\ pc[t] = "build" =>
       \A i \in 1..Len(Parts) : i < step[t] => runtime[Parts[i]] = inner[Parts[i]]

BuildProgress ==
  "built" \notin overlap =>
    /\ Idle => Built
    /\ \A t \in Threads : BuiltSoFar(t)

\* rebuild_runtime has only as many steps as there are parts.
StepsInRange == \A t \in Threads : pc[t] = "build" => step[t] <= Len(Parts)

\* A field nobody contests is in memory, or in the hands of the call that sets
\* it; and no call under way has an older value to write back.
PatchProgress ==
  \A f \in Fields \ contested :
    /\ \A t \in Threads : pc[t] = "write" => local[t][f] = last[f]
    /\ (\A t \in Threads : pc[t] = "write" => f \notin target[t]) => inner[f] = last[f]

IInv ==
  /\ TypeOK
  /\ StepsInRange
  /\ OverlapTold
  /\ BootAlone
  /\ NamesApart
  /\ SaveProgress
  /\ BuildProgress
  /\ PatchProgress

-----------------------------------------------------------------------------
(* Fields, configurations and files.                                       *)

LEMMA FieldFacts ==
  /\ Len(Mirrors) = 4 /\ Len(Parts) = 3
  /\ \A i \in 1..4 : Mirrors[i] \in MirrorFields
  /\ \A f \in MirrorFields : \E i \in 1..4 : f = Mirrors[i]
  /\ \A i \in 1..3 : Parts[i] \in PartFields
  /\ \A f \in PartFields : \E i \in 1..3 : f = Parts[i]
  BY DEF Mirrors, Parts, MirrorFields, PartFields

LEMMA FieldSets ==
  /\ MirrorFields = {"fail_closed", "paused", "max_body_bytes", "multimodal_blob"}
  /\ PartFields = {"custom_words", "command_block", "upstream"}
  /\ MirrorFields \subseteq Fields /\ PartFields \subseteq Fields
  /\ "panel_token" \in Fields /\ "paused" \in Fields
  /\ "panel_token" \notin MirrorFields \cup PartFields
  /\ "paused" \notin PartFields
  <1>1. MirrorFields = {"fail_closed", "paused", "max_body_bytes", "multimodal_blob"}
    BY DEF MirrorFields, Mirrors
  <1>2. PartFields = {"custom_words", "command_block", "upstream"}
    BY DEF PartFields, Parts
  <1>3. QED
    BY <1>1, <1>2 DEF Fields

LEMMA ConfigFacts ==
  /\ Default \in Configs
  /\ \A f \in Fields : Default[f] = FALSE
  /\ \A c \in Configs : WithToken(c) \in Configs
  /\ \A c \in Configs, f \in Fields, v \in BOOLEAN : Patched(c, f, v) \in Configs
  /\ Empty \in Contents /\ Torn \in Contents
  /\ \A c \in Configs : Text(c) \in Contents /\ Text(c).kind = "text" /\ Text(c).cfg = c
  /\ Empty.kind = "empty" /\ Torn.kind = "torn"
  BY FieldSets DEF Default, Configs, WithToken, Patched, Contents, Empty, Torn, Text

\* A file that parses has the text of a configuration.
LEMMA ContentFacts ==
  ASSUME NEW x \in Contents
  PROVE  x.kind = "text" => x.cfg \in Configs /\ x = Text(x.cfg)
  BY ConfigFacts DEF Contents

\* There is always an unused file: more files than threads and names.
LEMMA UnusedExists ==
  ASSUME TypeOK, tmp = None
  PROVE  Unused # {}
  <1> DEFINE Held == {fd[u] : u \in Threads}
             n == Cardinality(Threads)
  <1>1. IsFiniteSet(Threads) /\ n \in Nat
    BY ConfigAssumption, FS_CardinalityType
  <1>2. [u \in Threads |-> fd[u]] \in Surjection(Threads, Held)
    BY DEF Surjection
  <1>3. IsFiniteSet(Held) /\ Cardinality(Held) <= n
    BY <1>1, <1>2, FS_Surjection
  <1>4. Cardinality(Held) \in Nat
    BY <1>3, FS_CardinalityType
  <1>5. IsFiniteSet(Held \cup {json}) /\ Cardinality(Held \cup {json}) <= n + 1
    <2>1. /\ IsFiniteSet(Held \cup {json})
          /\ Cardinality(Held \cup {json}) =
               IF json \in Held THEN Cardinality(Held) ELSE Cardinality(Held) + 1
      BY <1>3, FS_AddElement
    <2>2. QED
      BY <1>1, <1>3, <1>4, <2>1
  <1>6. Cardinality(Inodes) = n + 3
    BY <1>1, FS_Interval DEF Inodes
  <1>7. ~ (Inodes \subseteq Held \cup {json})
    <2>1. SUFFICES ASSUME Inodes \subseteq Held \cup {json} PROVE FALSE
      OBVIOUS
    <2>2. Cardinality(Inodes) <= Cardinality(Held \cup {json})
      BY <1>5, <2>1, FS_Subset
    <2>3. Cardinality(Held \cup {json}) \in Nat
      BY <1>5, FS_CardinalityType
    <2>4. QED
      BY <1>1, <1>5, <1>6, <2>2, <2>3
  <1>8. None \notin Inodes
    BY <1>1, ConfigAssumption DEF Inodes
  <1>9. QED
    BY <1>7, <1>8 DEF Unused

\* The file persist opens is one, and neither absent nor config.json.
LEMMA WritesToFact ==
  ASSUME TypeOK, NamesApart, NEW i \in WritesTo
  PROVE  i \in Inodes /\ i # None /\ i # json
  <1>1. None \notin Inodes
    BY ConfigAssumption, FS_CardinalityType DEF Inodes
  <1>2. CASE tmp = None
    <2>1. i \in Unused
      BY <1>2, UnusedExists DEF WritesTo
    <2>2. QED
      BY <1>1, <2>1 DEF Unused
  <1>3. CASE tmp # None
    BY <1>1, <1>3 DEF WritesTo, TypeOK, NamesApart
  <1>4. QED
    BY <1>2, <1>3

-----------------------------------------------------------------------------
(* Type correctness.                                                       *)

Typed == TypeOK /\ StepsInRange /\ NamesApart

\* One is a step number.
LEMMA FirstStep == 1 \in 1..Len(Mirrors)
  BY FieldFacts

LEMMA InitTyped == Init => Typed
  <1> SUFFICES ASSUME Init PROVE Typed
    OBVIOUS
  <1>1. 1 \in Inodes /\ None \notin Inodes
    BY ConfigAssumption, FS_CardinalityType DEF Inodes
  <1>2. inner \in Configs
    BY ConfigFacts DEF Init
  <1>3. disk \in [Inodes -> Contents]
    BY <1>2, ConfigFacts DEF Init
  <1>4. /\ mirror \in [MirrorFields -> BOOLEAN]
        /\ runtime \in [PartFields -> BOOLEAN]
    BY ConfigFacts, FieldSets DEF Init
  <1>5. QED
    BY <1>1, <1>2, <1>3, <1>4, ConfigFacts, FirstStep
    DEF Init, Typed, TypeOK, StepsInRange, NamesApart, Steps

\* A call that begins has a configuration to write.
LEMMA CallArgument ==
  ASSUME TypeOK, NEW t \in Threads, Call(t)
  PROVE  \E c \in Configs, F \in SUBSET Fields :
           /\ \/ BeginCall(t, c, F, TRUE)
              \/ BeginCall(t, c, F, FALSE) /\ F \cap PartFields = {}
           /\ \A f \in Fields \ F : c[f] = inner[f]
  <1>1. CASE PutConfig(t)
    <2>1. PICK c \in Puts : BeginCall(t, c, Fields, TRUE)
      BY <1>1 DEF PutConfig
    <2>2. c \in Configs
      BY ConfigAssumption
    <2>3. QED
      BY <2>1, <2>2
  <1>2. ASSUME NEW f \in Fields, NEW v \in BOOLEAN
        PROVE  /\ Patched(inner, f, v) \in Configs
               /\ \A g \in Fields \ {f} : Patched(inner, f, v)[g] = inner[g]
    <2>1. inner \in Configs
      BY DEF TypeOK
    <2>2. QED
      BY <2>1, ConfigFacts DEF Patched, Configs
  <1>3. CASE PatchConfig(t)
    <2>1. PICK f \in Patchable, v \in BOOLEAN : BeginCall(t, Patched(inner, f, v), {f}, TRUE)
      BY <1>3 DEF PatchConfig
    <2>2. f \in Fields
      BY ConfigAssumption
    <2> Patched(inner, f, v) \in Configs /\ {f} \in SUBSET Fields
      BY <1>2, <2>2
    <2>4. \A g \in Fields \ {f} : Patched(inner, f, v)[g] = inner[g]
      BY <1>2, <2>2
    <2> WITNESS Patched(inner, f, v) \in Configs, {f} \in SUBSET Fields
    <2>5. QED
      BY <2>1, <2>4
  <1>4. CASE PauseResume(t)
    <2>1. PICK v \in BOOLEAN : BeginCall(t, Patched(inner, "paused", v), {"paused"}, FALSE)
      BY <1>4 DEF PauseResume
    <2> Patched(inner, "paused", v) \in Configs /\ {"paused"} \in SUBSET Fields
      BY <1>2, FieldSets
    <2>3. \A g \in Fields \ {"paused"} : Patched(inner, "paused", v)[g] = inner[g]
      BY <1>2, FieldSets
    <2>4. {"paused"} \cap PartFields = {}
      BY FieldSets
    <2> WITNESS Patched(inner, "paused", v) \in Configs, {"paused"} \in SUBSET Fields
    <2>5. QED
      BY <2>1, <2>3, <2>4
  <1>5. CASE RotateToken(t)
    <2> DEFINE c == Patched(inner, "panel_token", TRUE)
    <2> c \in Configs /\ {"panel_token"} \in SUBSET Fields
      BY <1>2, FieldSets
    <2>2. \A g \in Fields \ {"panel_token"} : c[g] = inner[g]
      BY <1>2, FieldSets
    <2>3. {"panel_token"} \cap PartFields = {}
      BY FieldSets
    <2>4. BeginCall(t, c, {"panel_token"}, FALSE)
      BY <1>5 DEF RotateToken
    <2> WITNESS c \in Configs, {"panel_token"} \in SUBSET Fields
    <2>5. QED
      BY <2>2, <2>3, <2>4
  <1>6. QED
    BY <1>1, <1>3, <1>4, <1>5 DEF Call

\* What a call does when it begins.
Begins(t, c, F) ==
  /\ booting = "no" /\ pc[t] = "idle"
  /\ pc' = [pc EXCEPT ![t] = "write"]
  /\ local' = [local EXCEPT ![t] = c]
  /\ target' = [target EXCEPT ![t] = F]
  /\ rebuild' \in [Threads -> BOOLEAN]
  /\ \A u \in Threads \ {t} : rebuild'[u] = rebuild[u]
  /\ last' = [f \in Fields |-> IF f \in F THEN c[f] ELSE last[f]]
  /\ \A f \in Fields \ F : c[f] = inner[f]
  /\ ~rebuild'[t] => F \cap PartFields = {}
  /\ Idle => /\ contested' = contested \ F
             /\ rebuild'[t] => overlap' = {}
             /\ ~rebuild'[t] => overlap' = overlap \ {"saved"}
  /\ ~Idle => /\ overlap' = {"saved", "built"}
              /\ contested \cup F \subseteq contested'
              /\ \A u \in Threads : pc[u] # "idle" => target[u] \subseteq contested'
              /\ contested' \subseteq Fields
  /\ ops' = ops + 1
  /\ UNCHANGED <<inner, mirror, runtime, step, fd, files, booting, crashes>>

LEMMA CallBegins ==
  ASSUME TypeOK, NEW t \in Threads, Call(t)
  PROVE  \E c \in Configs, F \in SUBSET Fields : Begins(t, c, F)
  <1>1. PICK c \in Configs, F \in SUBSET Fields :
          /\ \/ BeginCall(t, c, F, TRUE)
             \/ BeginCall(t, c, F, FALSE) /\ F \cap PartFields = {}
          /\ \A f \in Fields \ F : c[f] = inner[f]
    BY CallArgument
  <1> DEFINE busy == {u \in Threads : pc[u] # "idle"}
  <1>2. /\ rebuild \in [Threads -> BOOLEAN] /\ target \in [Threads -> SUBSET Fields]
        /\ overlap \subseteq {"saved", "built"} /\ contested \subseteq Fields
    BY DEF TypeOK
  <1>3. Idle <=> busy = {}
    BY DEF Idle
  <1>4. ASSUME ~Idle, contested' = contested \cup F \cup UNION {target[u] : u \in busy}
        PROVE  /\ contested \cup F \subseteq contested'
               /\ \A u \in Threads : pc[u] # "idle" => target[u] \subseteq contested'
               /\ contested' \subseteq Fields
    BY <1>2, <1>4
  <1>5. /\ booting = "no" /\ pc[t] = "idle"
        /\ pc' = [pc EXCEPT ![t] = "write"]
        /\ local' = [local EXCEPT ![t] = c]
        /\ target' = [target EXCEPT ![t] = F]
        /\ last' = [f \in Fields |-> IF f \in F THEN c[f] ELSE last[f]]
        /\ Idle => contested' = contested \ F
        /\ ~Idle => /\ overlap' = {"saved", "built"}
                    /\ contested' = contested \cup F \cup UNION {target[u] : u \in busy}
        /\ ops' = ops + 1
        /\ UNCHANGED <<inner, mirror, runtime, step, fd, files, booting, crashes>>
    BY <1>1, <1>3 DEF BeginCall, Goto
  <1>6. CASE BeginCall(t, c, F, TRUE)
    <2>1. rebuild' = [rebuild EXCEPT ![t] = TRUE]
      BY <1>6 DEF BeginCall
    <2>2. Idle => overlap' = {}
      BY <1>2, <1>3, <1>6 DEF BeginCall
    <2>3. QED
      BY <1>1, <1>2, <1>4, <1>5, <2>1, <2>2 DEF Begins
  <1>7. CASE BeginCall(t, c, F, FALSE) /\ F \cap PartFields = {}
    <2>1. rebuild' = [rebuild EXCEPT ![t] = FALSE]
      BY <1>7 DEF BeginCall
    <2>2. Idle => overlap' = overlap \ {"saved"}
      BY <1>2, <1>3, <1>7 DEF BeginCall
    <2>3. QED
      BY <1>1, <1>2, <1>4, <1>5, <1>7, <2>1, <2>2 DEF Begins
  <1>8. QED
    BY <1>1, <1>6, <1>7

LEMMA CallTyped ==
  ASSUME Typed, NEW t \in Threads, Call(t)
  PROVE  Typed'
  <1>1. PICK c \in Configs, F \in SUBSET Fields : Begins(t, c, F)
    BY CallBegins DEF Typed
  <1>2. last' \in Configs
    BY <1>1 DEF Begins, Configs, Typed, TypeOK
  <1>3. contested' \subseteq Fields /\ overlap' \subseteq {"saved", "built"}
    BY <1>1 DEF Begins, Typed, TypeOK
  <1>4. ops' \in Nat
    BY <1>1 DEF Begins, Typed, TypeOK
  <1>5. TypeOK'
    BY <1>1, <1>2, <1>3, <1>4 DEF Begins, Typed, TypeOK, Steps, files
  <1>6. QED
    BY <1>1, <1>5 DEF Begins, Typed, TypeOK, StepsInRange, NamesApart, files

LEMMA UpdateTyped ==
  ASSUME Typed, NEW t \in Threads, Update(t)
  PROVE  Typed'
  <1> USE FieldFacts DEF Typed, TypeOK, StepsInRange, NamesApart, Goto, Steps, files, bounds
  <1>1. CASE WriteInner(t)
    BY <1>1 DEF WriteInner
  <1>2. CASE SyncAtomics(t)
    BY <1>2 DEF SyncAtomics, Reread
  <1>3. CASE StoreMirror(t)
    <2>1. mirror' \in [MirrorFields -> BOOLEAN]
      <3>1. Mirrors[step[t]] \in Fields /\ local[t][Mirrors[step[t]]] \in BOOLEAN
        BY FieldSets DEF Configs
      <3>2. QED
        BY <1>3, <3>1 DEF StoreMirror, MirrorStore
    <2>2. step' \in [Threads -> 1..Len(Mirrors)] /\ pc' \in [Threads -> Steps]
      BY <1>3 DEF StoreMirror, NextMirror
    <2>3. StepsInRange'
      BY <1>3 DEF StoreMirror, NextMirror
    <2>4. QED
      BY <1>3, <2>1, <2>2, <2>3 DEF StoreMirror
  <1>4. CASE Persist(t)
    BY <1>4 DEF Persist, Reread
  <1>5. CASE Truncate(t)
    <2>1. PICK i \in WritesTo :
            /\ fd' = [fd EXCEPT ![t] = i]
            /\ disk' = [disk EXCEPT ![i] = Empty]
            /\ tmp' = i
      BY <1>5 DEF Truncate
    <2>2. i \in Inodes /\ i # None /\ i # json
      BY WritesToFact
    <2>3. disk' \in [Inodes -> Contents]
      BY <2>1, ConfigFacts
    <2>4. QED
      BY <1>5, <2>1, <2>2, <2>3 DEF Truncate
  <1>6. CASE Fill(t)
    <2>1. disk' \in [Inodes -> Contents]
      <3>1. Text(local[t]) \in Contents /\ Torn \in Contents
        BY ConfigFacts
      <3>2. PICK x \in Contents : disk' = [disk EXCEPT ![fd[t]] = x]
        BY <1>6, <3>1 DEF Fill
      <3>3. disk \in [Inodes -> Contents]
        OBVIOUS
      <3>4. QED
        BY <3>2, <3>3
    <2>2. QED
      BY <1>6, <2>1 DEF Fill
  <1>7. CASE Rename(t)
    <2>1. disk' \in [Inodes -> Contents] /\ json' \in Inodes /\ tmp' \in Inodes \cup {None}
      BY <1>7, ConfigFacts DEF Rename, RenameTmp
    <2>2. tmp' # json'
      <3>1. None \notin Inodes
        BY ConfigAssumption, FS_CardinalityType DEF Inodes
      <3>2. QED
        BY <1>7, <2>1, <3>1 DEF Rename, RenameTmp
    <2>3. pc' \in [Threads -> Steps] /\ StepsInRange'
      BY <1>7 DEF Rename, Finish
    <2>4. local' \in [Threads -> Configs]
      <3>1. local' = local \/ local' = [local EXCEPT ![t] = Default]
        BY <1>7 DEF Rename, Finish
      <3>2. local \in [Threads -> Configs] /\ Default \in Configs
        BY ConfigFacts
      <3>3. QED
        BY <3>1, <3>2
    <2>5. rebuild' \in [Threads -> BOOLEAN] /\ target' \in [Threads -> SUBSET Fields]
      BY <1>7 DEF Rename, Finish
    <2>6. QED
      BY <1>7, <2>1, <2>2, <2>3, <2>4, <2>5 DEF Rename
  <1>8. CASE RebuildRuntime(t)
    BY <1>8 DEF RebuildRuntime, Reread
  <1>9. CASE Build(t)
    <2>1. runtime' \in [PartFields -> BOOLEAN]
      <3>1. Parts[step[t]] \in PartFields
        BY <1>9 DEF Build
      <3>2. local[t][Parts[step[t]]] \in BOOLEAN
        BY <3>1, FieldSets DEF Configs
      <3>3. QED
        BY <1>9, <3>1, <3>2 DEF Build, BuildPart
    <2>2. step' \in [Threads -> 1..Len(Mirrors)] /\ pc' \in [Threads -> Steps]
      BY <1>9 DEF Build, Finish
    <2>3. /\ local' \in [Threads -> Configs]
          /\ rebuild' \in [Threads -> BOOLEAN] /\ target' \in [Threads -> SUBSET Fields]
      <3>1. local' = local \/ local' = [local EXCEPT ![t] = Default]
        BY <1>9 DEF Build, Finish
      <3>2. local \in [Threads -> Configs] /\ Default \in Configs
        BY ConfigFacts
      <3>3. rebuild' \in [Threads -> BOOLEAN] /\ target' \in [Threads -> SUBSET Fields]
        BY <1>9 DEF Build, Finish
      <3>4. QED
        BY <3>1, <3>2, <3>3
    <2>4. StepsInRange'
      BY <1>9 DEF Build, Finish
    <2>5. QED
      BY <1>9, <2>1, <2>2, <2>3, <2>4 DEF Build
  <1>10. QED
    BY <1>1, <1>2, <1>3, <1>4, <1>5, <1>6, <1>7, <1>8, <1>9 DEF Update

\* What a restart loads is a configuration.
LEMMA LoadedType ==
  ASSUME TypeOK
  PROVE  Loaded \in Configs /\ WithToken(Loaded) \in Configs
  <1>1. disk[json] \in Contents
    BY DEF TypeOK
  <1>2. Loaded \in Configs
    BY <1>1, ContentFacts, ConfigFacts DEF Loaded
  <1>3. QED
    BY <1>2, ConfigFacts

LEMMA RestartTyped ==
  ASSUME Typed
  PROVE  /\ Crash => Typed'
         /\ BootTruncate => Typed'
         /\ BootWrite => Typed'
  <1> USE DEF Typed, TypeOK, StepsInRange, NamesApart, files, bounds, locals
  <1>1. ASSUME Crash PROVE Typed'
    <2>1. /\ inner' \in Configs /\ last' \in Configs
          /\ mirror' \in [MirrorFields -> BOOLEAN] /\ runtime' \in [PartFields -> BOOLEAN]
      BY <1>1, LoadedType, FieldSets DEF Crash, Configs
    <2>2. QED
      BY <1>1, <2>1, ConfigFacts, FirstStep DEF Crash, Steps
  <1>2. ASSUME BootTruncate PROVE Typed'
    BY <1>2, ConfigFacts DEF BootTruncate
  <1>3. ASSUME BootWrite PROVE Typed'
    BY <1>3, ConfigFacts DEF BootWrite
  <1>4. QED
    BY <1>1, <1>2, <1>3

LEMMA NextTyped == Typed /\ [Next]_vars => Typed'
  <1>1. ASSUME Typed, UNCHANGED vars PROVE Typed'
    BY <1>1 DEF Typed, TypeOK, StepsInRange, NamesApart, vars, locals, files, bounds
  <1>2. QED
    BY <1>1, CallTyped, UpdateTyped, RestartTyped DEF Next

\* The variables keep their types, and there is always a file to write to.
THEOREM TypeCorrect == Spec => []TypeOK
  <1>1. Typed => TypeOK
    BY DEF Typed
  <1>2. QED
    BY InitTyped, NextTyped, <1>1, PTL DEF Spec

-----------------------------------------------------------------------------
(* What a step of a handler leaves alone.                                  *)

LEMMA UpdateFrame ==
  ASSUME TypeOK, NEW t \in Threads, Update(t)
  PROVE  /\ pc[t] # "idle" /\ pc'[t] # "write"
         /\ pc[t] = "write" => WriteInner(t)
         /\ pc[t] # "write" => inner' = inner
         /\ UNCHANGED <<last, contested, overlap, booting>>
         /\ \A u \in Threads \ {t} :
              /\ pc'[u] = pc[u] /\ local'[u] = local[u] /\ target'[u] = target[u]
              /\ rebuild'[u] = rebuild[u]
  <1>1. /\ pc \in [Threads -> Steps] /\ local \in [Threads -> Configs]
        /\ target \in [Threads -> SUBSET Fields] /\ rebuild \in [Threads -> BOOLEAN]
    BY DEF TypeOK
  <1> USE DEF Goto
  <1>2. CASE WriteInner(t)
    BY <1>1, <1>2 DEF WriteInner
  <1>3. CASE SyncAtomics(t) \/ Persist(t) \/ RebuildRuntime(t)
    BY <1>1, <1>3 DEF SyncAtomics, Persist, RebuildRuntime, Reread
  <1>4. CASE StoreMirror(t)
    BY <1>1, <1>4 DEF StoreMirror, NextMirror
  <1>5. CASE Truncate(t)
    BY <1>1, <1>5 DEF Truncate
  <1>6. CASE Fill(t)
    BY <1>1, <1>6 DEF Fill
  <1>7. CASE Rename(t)
    BY <1>1, <1>7 DEF Rename, Finish
  <1>8. CASE Build(t)
    BY <1>1, <1>8 DEF Build, Finish
  <1>9. QED
    BY <1>2, <1>3, <1>4, <1>5, <1>6, <1>7, <1>8 DEF Update

\* While calls have not overlapped, a handler that takes a step is alone.
LEMMA UpdateAlone ==
  ASSUME IInv, NEW t \in Threads, Update(t), "saved" \notin overlap
  PROVE  /\ \A u \in Threads \ {t} : pc[u] = "idle" /\ pc'[u] = "idle"
         /\ Idle' => pc'[t] = "idle"
         /\ SavedSoFar(t)
         /\ booting = "no"
  <1>1. pc[t] # "idle" /\ \A u \in Threads \ {t} : pc'[u] = pc[u]
    BY UpdateFrame DEF IInv
  <1>2. \A u \in Threads \ {t} : pc[u] = "idle"
    BY <1>1 DEF IInv, OverlapTold
  <1>3. Idle' => pc'[t] = "idle"
    BY DEF Idle
  <1>4. booting = "no"
    BY <1>1 DEF IInv, BootAlone, Idle
  <1>5. SavedSoFar(t)
    BY DEF IInv, SaveProgress
  <1>6. QED
    BY <1>1, <1>2, <1>3, <1>4, <1>5

-----------------------------------------------------------------------------
(* The invariant is inductive.                                             *)

LEMMA InitInvariant == Init => IInv
  <1> SUFFICES ASSUME Init PROVE IInv
    OBVIOUS
  <1>1. TypeOK /\ StepsInRange /\ NamesApart
    BY InitTyped DEF Typed
  <1>2. Idle /\ \A t \in Threads : pc[t] = "idle"
    BY DEF Init, Idle
  <1>3. OverlapTold /\ BootAlone
    BY <1>2 DEF Init, OverlapTold, BootAlone
  <1>4. Mirrored /\ Built
    <2>1. Default \in [Fields -> BOOLEAN] /\ inner = [Default EXCEPT !["panel_token"] = TRUE]
      BY ConfigFacts DEF Init, Configs, WithToken
    <2>2. QED
      BY <2>1, FieldSets DEF Init, Mirrored, Built
  <1>5. Saved
    <2>1. 1 \in Inodes
      BY ConfigAssumption, FS_CardinalityType DEF Inodes
    <2>2. QED
      BY <2>1 DEF Init, Saved
  <1>6. SaveProgress /\ BuildProgress
    BY <1>2, <1>4, <1>5 DEF SaveProgress, BuildProgress, SavedSoFar, BuiltSoFar
  <1>7. PatchProgress
    BY <1>2 DEF Init, PatchProgress
  <1>8. QED
    BY <1>1, <1>3, <1>6, <1>7 DEF IInv

\* A call begins.
LEMMA CallInvariant ==
  ASSUME IInv, NEW t \in Threads, Call(t)
  PROVE  IInv'
  <1>1. PICK c \in Configs, F \in SUBSET Fields : Begins(t, c, F)
    BY CallBegins DEF IInv
  <1>2. Typed'
    BY CallTyped DEF Typed, IInv
  <1>3. /\ pc \in [Threads -> Steps] /\ local \in [Threads -> Configs]
        /\ target \in [Threads -> SUBSET Fields] /\ overlap \subseteq {"saved", "built"}
    BY DEF IInv, TypeOK
  <1>4. /\ pc'[t] = "write" /\ local'[t] = c /\ target'[t] = F /\ ~Idle'
        /\ \A u \in Threads \ {t} : /\ pc'[u] = pc[u] /\ local'[u] = local[u]
                                    /\ target'[u] = target[u] /\ rebuild'[u] = rebuild[u]
    BY <1>1, <1>3 DEF Begins, Idle
  <1>5. BootAlone'
    BY <1>1 DEF Begins, BootAlone
  <1>6. OverlapTold'
    BY <1>1, <1>3, <1>4 DEF IInv, OverlapTold, Begins, Idle
  <1>7. ASSUME "saved" \notin overlap' PROVE Idle /\ \A u \in Threads \ {t} : pc'[u] = "idle"
    BY <1>1, <1>4, <1>7 DEF Begins, Idle
  <1>8. SaveProgress'
    BY <1>4, <1>7 DEF SaveProgress, SavedSoFar
  <1>9. BuildProgress'
    <2>1. SUFFICES ASSUME "built" \notin overlap'
                   PROVE  \A u \in Threads : BuiltSoFar(u)'
      BY <1>4 DEF BuildProgress
    <2>2. Idle /\ \A u \in Threads \ {t} : pc'[u] = "idle"
      BY <1>6, <1>7, <2>1 DEF OverlapTold
    <2>3. ASSUME ~rebuild'[t] PROVE Built' /\ \A f \in PartFields : local'[t][f] = inner'[f]
      <3>1. "built" \notin overlap
        BY <1>1, <2>1, <2>2, <2>3 DEF Begins
      <3>2. Built
        BY <2>2, <3>1 DEF IInv, BuildProgress
      <3>3. Built'
        BY <1>1, <3>2 DEF Begins, Built
      <3>4. \A f \in PartFields : c[f] = inner[f]
        BY <1>1, <2>3, FieldSets DEF Begins
      <3>5. QED
        BY <1>1, <1>4, <3>3, <3>4 DEF Begins
    <2>4. BuiltSoFar(t)'
      BY <1>4, <2>3 DEF BuiltSoFar
    <2>5. QED
      BY <2>2, <2>4 DEF BuiltSoFar
  <1>10. PatchProgress'
    <2>1. SUFFICES ASSUME NEW f \in Fields \ contested'
                   PROVE  /\ \A u \in Threads : pc'[u] = "write" => local'[u][f] = last'[f]
                          /\ (\A u \in Threads : pc'[u] = "write" => f \notin target'[u])
                               => inner'[f] = last'[f]
      BY DEF PatchProgress
    <2>2. last'[f] = (IF f \in F THEN c[f] ELSE last[f]) /\ inner' = inner
      BY <1>1 DEF Begins
    <2>3. CASE f \in F
      <3>1. Idle
        BY <1>1, <2>3 DEF Begins
      <3>2. \A u \in Threads \ {t} : pc'[u] # "write"
        BY <1>4, <3>1 DEF Idle
      <3>3. QED
        BY <1>4, <2>2, <2>3, <3>2
    <2>4. CASE f \notin F
      <3>1. f \notin contested /\ \A u \in Threads : pc[u] = "write" => f \notin target[u]
        <4>1. CASE Idle
          BY <1>1, <2>4, <4>1 DEF Begins, Idle
        <4>2. CASE ~Idle
          BY <1>1, <4>2 DEF Begins
        <4>3. QED
          BY <4>1, <4>2
      <3>2. /\ \A u \in Threads : pc[u] = "write" => local[u][f] = last[f]
            /\ inner[f] = last[f]
        BY <3>1 DEF IInv, PatchProgress
      <3>3. c[f] = inner[f]
        BY <1>1, <2>4 DEF Begins
      <3>4. QED
        BY <1>4, <2>2, <2>4, <3>2, <3>3
    <2>5. QED
      BY <2>3, <2>4
  <1>11. QED
    BY <1>2, <1>5, <1>6, <1>8, <1>9, <1>10 DEF IInv, Typed

\* A step of a handler that runs alone brings the mirrors and the file further.
LEMMA UpdateSaves ==
  ASSUME IInv, NEW t \in Threads, Update(t)
  PROVE  SaveProgress'
  <1>1. overlap' = overlap /\ booting' = booting
    BY UpdateFrame DEF IInv
  <1>2. SUFFICES ASSUME "saved" \notin overlap
                 PROVE  /\ pc'[t] = "idle" => Mirrored' /\ Saved'
                        /\ SavedSoFar(t)'
    <2>1. CASE "saved" \in overlap
      BY <1>1, <2>1 DEF SaveProgress
    <2>2. CASE "saved" \notin overlap
      <3>1. /\ \A u \in Threads \ {t} : pc'[u] = "idle"
            /\ Idle' => pc'[t] = "idle"
        BY <2>2, UpdateAlone
      <3>2. \A u \in Threads \ {t} : SavedSoFar(u)'
        BY <3>1 DEF SavedSoFar
      <3>3. QED
        BY <1>2, <2>2, <3>1, <3>2 DEF SaveProgress
    <2>3. QED
      BY <2>1, <2>2
  <1>3. SavedSoFar(t)
    BY <1>2, UpdateAlone
  <1>4. /\ pc \in [Threads -> Steps] /\ local \in [Threads -> Configs]
        /\ inner \in Configs /\ fd \in [Threads -> Inodes \cup {None}]
        /\ step \in [Threads -> 1..4] /\ mirror \in [MirrorFields -> BOOLEAN]
        /\ disk \in [Inodes -> Contents] /\ json \in Inodes /\ tmp \in Inodes \cup {None}
        /\ tmp # json
    BY FieldFacts DEF IInv, TypeOK, NamesApart
  <1> USE DEF Goto, files
  <1>5. CASE WriteInner(t)
    BY <1>4, <1>5 DEF WriteInner, SavedSoFar
  <1>6. CASE SyncAtomics(t)
    BY <1>4, <1>6, FieldFacts DEF SyncAtomics, Reread, SavedSoFar
  <1>7. CASE StoreMirror(t)
    <2>1. /\ pc[t] = "mirror" /\ local[t] = inner /\ step[t] \in 1..4
          /\ \A i \in 1..4 : i < step[t] => mirror[Mirrors[i]] = inner[Mirrors[i]]
      BY <1>3, <1>4, <1>7, FieldFacts DEF SavedSoFar, StoreMirror
    <2>2. /\ inner' = inner /\ local' = local
          /\ mirror' = [mirror EXCEPT ![Mirrors[step[t]]] = inner[Mirrors[step[t]]]]
      BY <1>7, <2>1 DEF StoreMirror, MirrorStore
    <2>3. \A i \in 1..4 : i <= step[t] => mirror'[Mirrors[i]] = inner[Mirrors[i]]
      BY <1>4, <2>1, <2>2, FieldFacts
    <2>4. CASE step[t] < 4
      <3>1. pc' = pc /\ step'[t] = step[t] + 1
        BY <1>4, <1>7, <2>4, FieldFacts DEF StoreMirror, NextMirror
      <3>2. QED
        BY <2>1, <2>2, <2>3, <3>1, FieldFacts DEF SavedSoFar
    <2>5. CASE step[t] = 4
      <3>1. pc'[t] = "persist"
        BY <1>4, <1>7, <2>5, FieldFacts DEF StoreMirror, NextMirror
      <3>2. Mirrored'
        BY <2>2, <2>3, <2>5, FieldFacts DEF Mirrored
      <3>3. QED
        BY <3>1, <3>2 DEF SavedSoFar
    <2>6. QED
      BY <2>1, <2>4, <2>5
  <1>8. CASE Persist(t)
    BY <1>3, <1>4, <1>8 DEF Persist, Reread, SavedSoFar, Mirrored
  <1>9. CASE Truncate(t)
    <2>1. PICK i \in WritesTo :
            /\ fd' = [fd EXCEPT ![t] = i]
            /\ disk' = [disk EXCEPT ![i] = Empty]
            /\ tmp' = i
      BY <1>9 DEF Truncate
    <2>2. i \in Inodes /\ i # None
      BY WritesToFact DEF IInv
    <2>3. /\ pc'[t] = "fill" /\ inner' = inner /\ local' = local /\ mirror' = mirror
          /\ fd'[t] = i /\ disk'[i] = Empty
      BY <1>4, <1>9, <2>1, <2>2 DEF Truncate
    <2>4. local[t] = inner /\ Mirrored
      BY <1>3, <1>9 DEF Truncate, SavedSoFar
    <2>5. QED
      BY <2>1, <2>2, <2>3, <2>4 DEF SavedSoFar, Mirrored
  <1>10. CASE Fill(t)
    <2>1. /\ pc[t] = "fill" /\ local[t] = inner /\ tmp \in Inodes /\ tmp # None
          /\ fd[t] = tmp /\ disk[tmp] = Empty /\ Mirrored
      BY <1>3, <1>4, <1>10 DEF Fill, SavedSoFar
    <2>2. disk' = [disk EXCEPT ![tmp] = Text(inner)]
      BY <1>10, <2>1 DEF Fill
    <2>3. pc'[t] = "rename" /\ inner' = inner /\ mirror' = mirror /\ tmp' = tmp
      BY <1>4, <1>10 DEF Fill
    <2>4. QED
      BY <1>4, <2>1, <2>2, <2>3 DEF SavedSoFar, Mirrored
  <1>11. CASE Rename(t)
    <2>1. tmp # None /\ tmp \in Inodes /\ disk[tmp] = Text(inner) /\ Mirrored
      BY <1>3, <1>4, <1>11 DEF Rename, SavedSoFar
    <2>2. json' = tmp /\ disk'[tmp] = disk[tmp]
      BY <1>4, <1>11, <2>1 DEF Rename, RenameTmp
    <2>3. pc'[t] \in {"idle", "rebuild"} /\ inner' = inner /\ mirror' = mirror
      BY <1>4, <1>11 DEF Rename, Finish
    <2>4. Saved' /\ Mirrored'
      BY <2>1, <2>2, <2>3 DEF Saved, Mirrored
    <2>5. QED
      BY <2>3, <2>4 DEF SavedSoFar
  <1>12. CASE RebuildRuntime(t)
    BY <1>3, <1>4, <1>12 DEF RebuildRuntime, Reread, SavedSoFar, Mirrored, Saved
  <1>13. CASE Build(t)
    <2>1. Saved /\ Mirrored /\ local[t] = inner
      BY <1>3, <1>13 DEF Build, SavedSoFar
    <2>2. UNCHANGED <<inner, mirror, disk, json>>
      BY <1>13 DEF Build
    <2>3. Saved' /\ Mirrored'
      BY <2>1, <2>2 DEF Saved, Mirrored
    <2>4. (pc'[t] = "build" /\ local' = local) \/ pc'[t] = "idle"
      BY <1>4, <1>13 DEF Build, Finish
    <2>5. QED
      BY <2>1, <2>2, <2>3, <2>4 DEF SavedSoFar
  <1>14. QED
    BY <1>5, <1>6, <1>7, <1>8, <1>9, <1>10, <1>11, <1>12, <1>13 DEF Update

\* Likewise the runtime parts.
LEMMA UpdateBuilds ==
  ASSUME IInv, NEW t \in Threads, Update(t)
  PROVE  BuildProgress'
  <1>1. overlap' = overlap
    BY UpdateFrame DEF IInv
  <1>2. SUFFICES ASSUME "built" \notin overlap
                 PROVE  (pc'[t] = "idle" => Built') /\ BuiltSoFar(t)'
    <2>1. CASE "built" \in overlap
      BY <1>1, <2>1 DEF BuildProgress
    <2>2. CASE "built" \notin overlap
      <3>1. "saved" \notin overlap
        BY <2>2 DEF IInv, OverlapTold
      <3>2. /\ \A u \in Threads \ {t} : pc'[u] = "idle"
            /\ Idle' => pc'[t] = "idle"
        BY <3>1, UpdateAlone
      <3>3. \A u \in Threads \ {t} : BuiltSoFar(u)'
        BY <3>2 DEF BuiltSoFar
      <3>4. QED
        BY <1>2, <2>2, <3>2, <3>3 DEF BuildProgress
    <2>3. QED
      BY <2>1, <2>2
  <1>3. BuiltSoFar(t)
    BY <1>2 DEF IInv, BuildProgress
  <1>4. SavedSoFar(t)
    BY <1>2, UpdateAlone DEF IInv, OverlapTold
  <1>5. /\ pc \in [Threads -> Steps] /\ local \in [Threads -> Configs]
        /\ step \in [Threads -> 1..4] /\ runtime \in [PartFields -> BOOLEAN]
        /\ rebuild \in [Threads -> BOOLEAN]
        /\ pc[t] = "build" => step[t] \in 1..3
    BY FieldFacts DEF IInv, TypeOK, StepsInRange
  <1> USE DEF Goto
  <1>6. CASE WriteInner(t)
    <2>1. pc'[t] = "sync" /\ inner' = local[t] /\ runtime' = runtime /\ rebuild' = rebuild
      BY <1>5, <1>6 DEF WriteInner
    <2>2. ~rebuild[t] => Built /\ \A f \in PartFields : local[t][f] = inner[f]
      BY <1>3, <1>6 DEF WriteInner, BuiltSoFar
    <2>3. ~rebuild[t] => Built'
      BY <2>1, <2>2 DEF Built
    <2>4. QED
      BY <2>1, <2>3 DEF BuiltSoFar
  <1>7. ASSUME UNCHANGED <<inner, runtime, rebuild>>,
               pc[t] # "idle", pc'[t] \notin {"idle", "write", "build"},
               pc'[t] = "rebuild" => rebuild[t]
        PROVE  BuiltSoFar(t)'
    BY <1>3, <1>7 DEF BuiltSoFar, Built
  <1>8. CASE SyncAtomics(t) \/ Persist(t) \/ StoreMirror(t) \/ Truncate(t) \/ Fill(t)
    <2>1. /\ UNCHANGED <<inner, runtime, rebuild>>
          /\ pc[t] # "idle" /\ pc'[t] \in {"mirror", "persist", "truncate", "fill", "rename"}
      BY <1>5, <1>8 DEF SyncAtomics, Persist, Reread, StoreMirror, NextMirror, Truncate, Fill
    <2>2. QED
      BY <1>7, <2>1
  <1>9. CASE Rename(t)
    <2>1. UNCHANGED <<inner, runtime>> /\ pc[t] = "rename"
      BY <1>9 DEF Rename
    <2>2. CASE rebuild[t]
      <3>1. pc'[t] = "rebuild" /\ rebuild' = rebuild
        BY <1>5, <1>9, <2>2 DEF Rename
      <3>2. QED
        BY <1>7, <2>1, <2>2, <3>1
    <2>3. CASE ~rebuild[t]
      <3>1. pc'[t] = "idle"
        BY <1>5, <1>9, <2>3 DEF Rename, Finish
      <3>2. Built
        BY <1>3, <2>1, <2>3 DEF BuiltSoFar
      <3>3. QED
        BY <2>1, <3>1, <3>2 DEF BuiltSoFar, Built
    <2>4. QED
      BY <2>2, <2>3
  <1>10. CASE RebuildRuntime(t)
    <2>1. /\ UNCHANGED <<inner, runtime, rebuild>>
          /\ pc[t] = "rebuild" /\ pc'[t] = "build" /\ step'[t] = 1
      BY <1>5, <1>10 DEF RebuildRuntime, Reread
    <2>2. QED
      BY <1>3, <2>1, FieldFacts DEF BuiltSoFar
  <1>11. CASE Build(t)
    <2>1. /\ pc[t] = "build" /\ local[t] = inner /\ step[t] \in 1..3 /\ rebuild[t]
          /\ \A i \in 1..3 : i < step[t] => runtime[Parts[i]] = inner[Parts[i]]
      BY <1>3, <1>4, <1>5, <1>11, FieldFacts DEF Build, BuiltSoFar, SavedSoFar
    <2>2. /\ inner' = inner
          /\ runtime' = [runtime EXCEPT ![Parts[step[t]]] = inner[Parts[step[t]]]]
      BY <1>11, <2>1 DEF Build, BuildPart
    <2>3. \A i \in 1..3 : i <= step[t] => runtime'[Parts[i]] = inner[Parts[i]]
      BY <1>5, <2>1, <2>2, FieldFacts
    <2>4. CASE step[t] < 3
      <3>1. pc' = pc /\ step'[t] = step[t] + 1 /\ rebuild' = rebuild
        BY <1>5, <1>11, <2>4, FieldFacts DEF Build
      <3>2. QED
        BY <2>1, <2>2, <2>3, <3>1, FieldFacts DEF BuiltSoFar
    <2>5. CASE step[t] = 3
      <3>1. pc'[t] = "idle"
        BY <1>5, <1>11, <2>5, FieldFacts DEF Build, Finish
      <3>2. Built'
        BY <2>2, <2>3, <2>5, FieldFacts DEF Built
      <3>3. QED
        BY <3>1, <3>2 DEF BuiltSoFar
    <2>6. QED
      BY <2>1, <2>4, <2>5
  <1>12. QED
    BY <1>6, <1>8, <1>9, <1>10, <1>11 DEF Update, BuiltSoFar

LEMMA UpdateInvariant ==
  ASSUME IInv, NEW t \in Threads, Update(t)
  PROVE  IInv'
  <1>1. Typed'
    BY UpdateTyped DEF Typed, IInv
  <1>2. /\ pc[t] # "idle" /\ pc'[t] # "write"
        /\ pc[t] = "write" => WriteInner(t)
        /\ pc[t] # "write" => inner' = inner
        /\ UNCHANGED <<last, contested, overlap, booting>>
        /\ \A u \in Threads \ {t} :
             pc'[u] = pc[u] /\ local'[u] = local[u] /\ target'[u] = target[u]
    BY UpdateFrame DEF IInv
  <1>3. OverlapTold'
    BY <1>2 DEF IInv, OverlapTold
  <1>4. BootAlone'
    BY <1>2 DEF IInv, BootAlone, Idle
  <1>5. PatchProgress'
    <2>1. CASE pc[t] = "write"
      <3>1. inner' = local[t]
        BY <1>2, <2>1 DEF WriteInner
      <3>2. QED
        BY <1>2, <2>1, <3>1 DEF IInv, PatchProgress
    <2>2. CASE pc[t] # "write"
      <3>1. \A u \in Threads :
              /\ pc'[u] = "write" <=> pc[u] = "write"
              /\ pc[u] = "write" => local'[u] = local[u] /\ target'[u] = target[u]
        BY <1>2, <2>2
      <3>2. QED
        BY <1>2, <2>2, <3>1 DEF IInv, PatchProgress
    <2>3. QED
      BY <2>1, <2>2
  <1>6. QED
    BY <1>1, <1>3, <1>4, <1>5, UpdateSaves, UpdateBuilds DEF IInv, Typed

\* After a crash memory agrees with what was loaded; where that had a token,
\* with the file as well.
LEMMA CrashInvariant ==
  ASSUME IInv, Crash
  PROVE  IInv'
  <1>1. Typed'
    BY RestartTyped DEF Typed, IInv
  <1>2. Idle' /\ \A t \in Threads : pc'[t] = "idle"
    BY DEF Crash, Idle
  <1>3. Loaded \in Configs
    BY LoadedType DEF IInv
  <1>4. inner' = [Loaded EXCEPT !["panel_token"] = TRUE]
    BY DEF Crash, WithToken
  <1>5. Mirrored' /\ Built'
    BY <1>3, <1>4, FieldSets DEF Crash, Mirrored, Built, Configs
  <1>6. booting' = "no" => Saved'
    <2>1. SUFFICES ASSUME booting' = "no" PROVE Saved'
      OBVIOUS
    <2>2. Loaded["panel_token"]
      BY <2>1 DEF Crash
    <2>3. Loaded # Default
      BY <2>2, ConfigFacts, FieldSets
    <2>4. disk[json].kind = "text" /\ Loaded = disk[json].cfg /\ disk[json] \in Contents
      BY <2>3 DEF Loaded, IInv, TypeOK
    <2>5. disk[json] = Text(Loaded)
      BY <2>4, ContentFacts
    <2>6. inner' = Loaded
      <3>1. Loaded["panel_token"] = TRUE
        BY <1>3, <2>2, FieldSets DEF Configs
      <3>2. QED
        BY <1>3, <1>4, <3>1, FieldSets DEF Configs
    <2>7. QED
      BY <2>5, <2>6 DEF Crash, Saved, files
  <1>7. SaveProgress' /\ BuildProgress'
    BY <1>2, <1>5, <1>6 DEF SaveProgress, BuildProgress, SavedSoFar, BuiltSoFar
  <1>8. OverlapTold' /\ BootAlone'
    BY <1>2 DEF Crash, OverlapTold, BootAlone
  <1>9. PatchProgress'
    BY <1>2 DEF Crash, PatchProgress
  <1>10. QED
    BY <1>1, <1>7, <1>8, <1>9 DEF IInv, Typed

\* load_or_init writes the configuration back.
LEMMA BootInvariant ==
  ASSUME IInv, BootTruncate \/ BootWrite
  PROVE  IInv'
  <1>1. Typed'
    BY RestartTyped DEF Typed, IInv
  <1>2. /\ UNCHANGED <<inner, mirror, runtime, pc, local, step, rebuild, target, last,
                       contested, overlap, json>>
        /\ booting # "no" /\ booting' \in {"write", "no"}
    BY DEF BootTruncate, BootWrite, locals
  <1>3. Idle /\ \A t \in Threads : pc[t] = "idle" /\ pc'[t] = "idle"
    BY <1>2 DEF IInv, BootAlone, Idle
  <1>4. booting' = "no" => Saved'
    <2>1. SUFFICES ASSUME booting' = "no" PROVE Saved'
      OBVIOUS
    <2>2. disk' = [disk EXCEPT ![json] = Text(inner)]
      BY <2>1 DEF BootTruncate, BootWrite
    <2>3. disk \in [Inodes -> Contents] /\ json \in Inodes
      BY DEF IInv, TypeOK
    <2>4. QED
      BY <1>2, <2>2, <2>3 DEF Saved
  <1>5. "saved" \notin overlap => Mirrored'
    BY <1>2, <1>3 DEF IInv, SaveProgress, Mirrored
  <1>6. "built" \notin overlap => Built'
    BY <1>2, <1>3 DEF IInv, BuildProgress, Built
  <1>7. SaveProgress' /\ BuildProgress'
    BY <1>2, <1>3, <1>4, <1>5, <1>6 DEF SaveProgress, BuildProgress, SavedSoFar, BuiltSoFar
  <1>8. OverlapTold' /\ BootAlone'
    BY <1>2, <1>3 DEF IInv, OverlapTold, BootAlone, Idle
  <1>9. PatchProgress'
    BY <1>2 DEF IInv, PatchProgress
  <1>10. QED
    BY <1>1, <1>7, <1>8, <1>9 DEF IInv, Typed

LEMMA NextInvariant == IInv /\ [Next]_vars => IInv'
  <1>1. ASSUME IInv, UNCHANGED vars PROVE IInv'
    <2>1. Typed'
      BY <1>1, NextTyped DEF IInv, Typed
    <2>2. UNCHANGED <<inner, mirror, runtime, pc, local, step, rebuild, target, fd, disk, json,
                      tmp, booting, last, contested, overlap>>
      BY <1>1 DEF vars, locals, files
    <2>3. OverlapTold' /\ BootAlone' /\ PatchProgress'
      BY <1>1, <2>2 DEF IInv, OverlapTold, BootAlone, PatchProgress, Idle
    <2>4. SaveProgress' /\ BuildProgress'
      BY <1>1, <2>2 DEF IInv, SaveProgress, BuildProgress, SavedSoFar, BuiltSoFar, Idle,
                        Mirrored, Saved, Built
    <2>5. QED
      BY <2>1, <2>3, <2>4 DEF IInv, Typed
  <1>2. QED
    BY <1>1, CallInvariant, UpdateInvariant, CrashInvariant, BootInvariant DEF Next

-----------------------------------------------------------------------------
(* The theorems.                                                           *)

\* patch_config, pause and rotate_token write the whole configuration back, yet
\* a field that was set by a call that ran alone keeps its value, however the
\* later calls on other fields overlap and wherever the process dies.
THEOREM PatchesKept == Spec => []PatchesSurvive
  <1>1. IInv => PatchesSurvive
    BY DEF IInv, PatchProgress, PatchesSurvive, Quiescent
  <1>2. QED
    BY InitInvariant, NextInvariant, <1>1, PTL DEF Spec

\* sync_atomics: after a call that ran alone the mirrors are those of the
\* configuration, whatever overlapping calls had done to them.
THEOREM MirrorsAgree == Spec => []MirrorsFollow
  <1>1. IInv => MirrorsFollow
    BY DEF IInv, SaveProgress, MirrorsFollow, Quiescent, Idle, Mirrored
  <1>2. QED
    BY InitInvariant, NextInvariant, <1>1, PTL DEF Spec

\* rebuild_runtime: likewise the runtime parts.
THEOREM RuntimeAgrees == Spec => []RuntimeFollows
  <1>1. IInv => RuntimeFollows
    BY DEF IInv, BuildProgress, RuntimeFollows, Quiescent, Idle, Built
  <1>2. QED
    BY InitInvariant, NextInvariant, <1>1, PTL DEF Spec

\* persist and load_or_init: likewise config.json.
THEOREM FileAgrees == Spec => []FileFollows
  <1>1. IInv => FileFollows
    BY DEF IInv, SaveProgress, FileFollows, Quiescent, Idle, Saved
  <1>2. QED
    BY InitInvariant, NextInvariant, <1>1, PTL DEF Spec

\* persist: a save that runs alone never leaves an unreadable config.json, not
\* even for a moment.
THEOREM SavesAreAtomic == Spec => SavesAtomic
  <1> DEFINE Readable == disk[json].kind = "text"
             Atomic == booting = "no" /\ "saved" \notin overlap /\ disk[json].kind = "text"
                         => disk'[json'].kind = "text"
  <1>1. ASSUME IInv, Next, booting = "no", "saved" \notin overlap, Readable PROVE Readable'
    <2>1. /\ disk \in [Inodes -> Contents] /\ json \in Inodes /\ tmp \in Inodes \cup {None}
          /\ tmp # json /\ inner \in Configs
      BY <1>1 DEF IInv, TypeOK, NamesApart
    <2>2. ASSUME UNCHANGED files PROVE Readable'
      BY <1>1, <2>2 DEF files
    <2>3. ASSUME NEW t \in Threads, Call(t) PROVE UNCHANGED files
      <3>1. PICK c \in Configs, F \in SUBSET Fields : Begins(t, c, F)
        BY <1>1, <2>3, CallBegins DEF IInv
      <3>2. QED
        BY <3>1 DEF Begins
    <2>4. ASSUME NEW t \in Threads, Truncate(t) PROVE Readable'
      <3>1. PICK i \in WritesTo : disk' = [disk EXCEPT ![i] = Empty]
        BY <2>4 DEF Truncate
      <3>2. i # json
        BY <1>1, WritesToFact DEF IInv
      <3>3. json' = json
        BY <2>4 DEF Truncate
      <3>4. QED
        BY <1>1, <2>1, <3>1, <3>2, <3>3
    <2>5. ASSUME NEW t \in Threads, Update(t) PROVE SavedSoFar(t)
      BY <1>1, <2>5, UpdateAlone
    <2>6. ASSUME NEW t \in Threads, Fill(t) PROVE Readable'
      <3>1. fd[t] = tmp
        BY <2>5, <2>6 DEF Update, Fill, SavedSoFar
      <3>2. json' = json /\ disk'[json] = disk[json]
        BY <2>1, <2>6, <3>1 DEF Fill
      <3>3. QED
        BY <1>1, <3>2
    <2>7. ASSUME NEW t \in Threads, Rename(t) PROVE Readable'
      <3>1. tmp # None /\ disk[tmp] = Text(inner)
        BY <2>5, <2>7 DEF Update, Rename, SavedSoFar
      <3>2. json' = tmp /\ disk'[tmp] = disk[tmp]
        BY <2>1, <2>7, <3>1 DEF Rename, RenameTmp
      <3>3. QED
        BY <2>1, <3>1, <3>2, ConfigFacts
    <2>8. ASSUME NEW t \in Threads, Update(t) PROVE Readable'
      <3>1. \/ UNCHANGED files
            \/ Truncate(t) \/ Fill(t) \/ Rename(t)
        BY <2>8 DEF Update, WriteInner, SyncAtomics, Persist, RebuildRuntime, Reread,
                    StoreMirror, Build
      <3>2. QED
        BY <2>2, <2>4, <2>6, <2>7, <3>1
    <2>9. CASE Crash
      BY <2>2, <2>9 DEF Crash
    <2>10. CASE BootTruncate \/ BootWrite
      BY <1>1, <2>10 DEF BootTruncate, BootWrite
    <2>11. QED
      BY <1>1, <2>2, <2>3, <2>8, <2>9, <2>10 DEF Next
  <1>2. IInv /\ [Next]_vars => [Atomic]_vars
    BY <1>1
  <1>3. Spec => []IInv
    BY InitInvariant, NextInvariant, PTL DEF Spec
  <1>4. QED
    BY <1>2, <1>3, PTL DEF Spec, SavesAtomic

=============================================================================
