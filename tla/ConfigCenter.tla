---------------------------- MODULE ConfigCenter ----------------------------
(***************************************************************************)
(* The configuration center (ConfigCenter in src/src/config.rs), the       *)
(* console handlers that change it (src/src/server/console_api.rs) and the *)
(* runtime parts rebuilt from it (AppState::rebuild_runtime in             *)
(* src/src/server/mod.rs).                                                 *)
(*                                                                         *)
(* The configuration lives in four places: behind a lock, in atomic        *)
(* mirrors for the hot path, in config.json, and in the runtime parts made *)
(* from it.  A console handler updates them one after the other without a  *)
(* lock around the whole; handlers run on parallel worker threads.  The    *)
(* process may die between any two steps and then loads config.json again. *)
(***************************************************************************)
EXTENDS Naturals, Sequences, FiniteSets

CONSTANTS
  Threads,      \* worker threads that run console handlers
  Puts,         \* configurations put_config may be sent
  Patchable,    \* fields patch_config may be sent
  EmptyToken,   \* TRUE: patch_config may clear panel_token
  MaxOps,       \* bound: console calls that change the configuration
  MaxCrashes,   \* bound: crashes of the process
  None          \* absence of a value

\* Fields with an atomic mirror, in the order sync_atomics stores them.
Mirrors == <<"fail_closed", "paused", "max_body_bytes", "multimodal_blob">>

\* Fields a runtime part is built from, in the order rebuild_runtime goes.
Parts == <<"custom_words", "command_block", "upstream">>

MirrorFields == {Mirrors[i] : i \in 1..Len(Mirrors)}
PartFields == {Parts[i] : i \in 1..Len(Parts)}
Fields == MirrorFields \cup PartFields \cup {"panel_token"}

\* Every field is reduced to two values: as in Config::default, or changed.
\* panel_token is empty in the default configuration.
Configs == [Fields -> BOOLEAN]

Default == [f \in Fields |-> FALSE]

WithToken(c) == [c EXCEPT !["panel_token"] = TRUE]

ASSUME ConfigAssumption ==
  /\ IsFiniteSet(Threads)
  /\ Puts \subseteq Configs
  /\ Patchable \subseteq Fields
  /\ EmptyToken \in BOOLEAN
  /\ {MaxOps, MaxCrashes} \subseteq Nat
  /\ None \notin Nat

\* Files by identity: an open handle keeps writing to the file it opened even
\* when the name has moved.  One per thread, two names and a spare.
Inodes == 1..(Cardinality(Threads) + 3)

\* A file holds a whole text, nothing, or a text with the tail of another.
Text(c) == [kind |-> "text", cfg |-> c]
Empty == [kind |-> "empty", cfg |-> Default]
Torn == [kind |-> "torn", cfg |-> Default]

Contents == {Empty, Torn} \cup {Text(c) : c \in Configs}

VARIABLES
  inner,      \* the configuration behind the lock
  mirror,     \* the atomic mirrors
  runtime,    \* what each runtime part was built from
  pc,         \* per thread: where its handler is
  local,      \* per thread: the configuration it works on
  step,       \* per thread: position in Mirrors or Parts
  rebuild,    \* per thread: the call ends with rebuild_runtime
  target,     \* per thread: the fields its call sets
  fd,         \* per thread: the file it has open for writing
  disk,       \* contents of every file
  json,       \* the file named config.json
  tmp,        \* the file named .config.json.tmp, if any
  booting,    \* load_or_init is writing config.json back
  last,       \* history: per field, the value of the latest call that set it
  contested,  \* history: fields whose latest call overlapped another call
  overlap,    \* history: "saved", "built": calls have overlapped, and no call
              \* since ran alone and saved, or rebuilt
  ops, crashes

locals == <<pc, local, step, rebuild, target>>
files == <<disk, json, tmp>>
bounds == <<ops, crashes>>
vars == <<inner, mirror, runtime, locals, fd, files, booting, last, contested, overlap, bounds>>

Steps == {"idle", "write", "sync", "mirror", "persist", "truncate", "fill", "rename",
          "rebuild", "build"}

TypeOK ==
  /\ inner \in Configs
  /\ mirror \in [MirrorFields -> BOOLEAN]
  /\ runtime \in [PartFields -> BOOLEAN]
  /\ pc \in [Threads -> Steps]
  /\ local \in [Threads -> Configs]
  /\ step \in [Threads -> 1..Len(Mirrors)]
  /\ rebuild \in [Threads -> BOOLEAN]
  /\ target \in [Threads -> SUBSET Fields]
  /\ fd \in [Threads -> Inodes \cup {None}]
  /\ disk \in [Inodes -> Contents]
  /\ json \in Inodes
  /\ tmp \in Inodes \cup {None}
  /\ booting \in {"no", "truncate", "write"}
  /\ last \in Configs
  /\ contested \subseteq Fields
  /\ overlap \subseteq {"saved", "built"}
  /\ ops \in Nat
  /\ crashes \in Nat

\* The process has started on a config.json that has a token.
Init ==
  /\ inner = WithToken(Default)
  /\ mirror = [f \in MirrorFields |-> Default[f]]
  /\ runtime = [f \in PartFields |-> Default[f]]
  /\ pc = [t \in Threads |-> "idle"]
  /\ local = [t \in Threads |-> Default]
  /\ step = [t \in Threads |-> 1]
  /\ rebuild = [t \in Threads |-> FALSE]
  /\ target = [t \in Threads |-> {}]
  /\ fd = [t \in Threads |-> None]
  /\ disk = [i \in Inodes |-> IF i = 1 THEN Text(inner) ELSE Empty]
  /\ json = 1
  /\ tmp = None
  /\ booting = "no"
  /\ last = inner
  /\ contested = {}
  /\ overlap = {}
  /\ ops = 0
  /\ crashes = 0

Goto(t, p) == pc' = [pc EXCEPT ![t] = p]

\* The handler returns; its locals are gone.
Finish(t) ==
  /\ Goto(t, "idle")
  /\ local' = [local EXCEPT ![t] = Default]
  /\ rebuild' = [rebuild EXCEPT ![t] = FALSE]
  /\ target' = [target EXCEPT ![t] = {}]

-----------------------------------------------------------------------------
(* The console calls.                                                      *)

\* A call sets the fields F to their values in c.
BeginCall(t, c, F, full) ==
  /\ booting = "no"
  /\ pc[t] = "idle"
  /\ ops < MaxOps
  /\ ops' = ops + 1
  /\ Goto(t, "write")
  /\ local' = [local EXCEPT ![t] = c]
  /\ rebuild' = [rebuild EXCEPT ![t] = full]
  /\ target' = [target EXCEPT ![t] = F]
  /\ last' = [f \in Fields |-> IF f \in F THEN c[f] ELSE last[f]]
  /\ LET busy == {u \in Threads : pc[u] # "idle"}
     IN  IF busy = {}
           THEN /\ contested' = contested \ F
                /\ overlap' = overlap \ (IF full THEN {"saved", "built"} ELSE {"saved"})
           ELSE /\ contested' = contested \cup F \cup UNION {target[u] : u \in busy}
                /\ overlap' = {"saved", "built"}
  /\ UNCHANGED <<inner, mirror, runtime, step, fd, files, booting, crashes>>

\* put_config: the whole configuration is replaced.
PutConfig(t) == \E c \in Puts : BeginCall(t, c, Fields, TRUE)

\* A slip: the fields next to the patched one are lost.
PatchedDropsSiblings(c, f, v) == [g \in Fields |-> IF g = f THEN v ELSE Default[g]]

\* patch_segs: the current configuration with one field replaced.
Patched(c, f, v) == [c EXCEPT ![f] = v]

\* patch_config
PatchConfig(t) ==
  \E f \in Patchable, v \in BOOLEAN :
    /\ f = "panel_token" => v \/ EmptyToken
    /\ BeginCall(t, Patched(inner, f, v), {f}, TRUE)

\* pause and resume; nothing is rebuilt.
PauseResume(t) ==
  \E v \in BOOLEAN : BeginCall(t, Patched(inner, "paused", v), {"paused"}, FALSE)

\* rotate_token
RotateToken(t) == BeginCall(t, Patched(inner, "panel_token", TRUE), {"panel_token"}, FALSE)

\* update stores the configuration behind the lock.
WriteInner(t) ==
  /\ pc[t] = "write"
  /\ inner' = local[t]
  /\ Goto(t, "sync")
  /\ UNCHANGED <<mirror, runtime, local, step, rebuild, target, fd, files, booting, last,
                 contested, overlap, bounds>>

\* sync_atomics, persist and rebuild_runtime each begin by reading the
\* configuration afresh.
Reread(t, from, to) ==
  /\ pc[t] = from
  /\ local' = [local EXCEPT ![t] = inner]
  /\ step' = [step EXCEPT ![t] = 1]
  /\ Goto(t, to)
  /\ UNCHANGED <<inner, mirror, runtime, rebuild, target, fd, files, booting, last, contested,
                 overlap, bounds>>

SyncAtomics(t) == Reread(t, "sync", "mirror")
Persist(t) == Reread(t, "persist", "truncate")
RebuildRuntime(t) == Reread(t, "rebuild", "build")

\* A slip: only the first mirror is stored.
MirrorFirstOnly(t) == mirror' = [mirror EXCEPT ![Mirrors[1]] = local[t][Mirrors[1]]]

MirrorStore(t) == mirror' = [mirror EXCEPT ![Mirrors[step[t]]] = local[t][Mirrors[step[t]]]]

\* A slip: the position runs past the last mirror.
NextMirrorTooFar(t) ==
  IF step[t] <= Len(Mirrors)
    THEN step' = [step EXCEPT ![t] = @ + 1] /\ UNCHANGED pc
    ELSE step' = [step EXCEPT ![t] = 1] /\ Goto(t, "persist")

NextMirror(t) ==
  IF step[t] < Len(Mirrors)
    THEN step' = [step EXCEPT ![t] = @ + 1] /\ UNCHANGED pc
    ELSE step' = [step EXCEPT ![t] = 1] /\ Goto(t, "persist")

\* sync_atomics stores one mirror after the other.
StoreMirror(t) ==
  /\ pc[t] = "mirror"
  /\ MirrorStore(t)
  /\ NextMirror(t)
  /\ UNCHANGED <<inner, runtime, local, rebuild, target, fd, files, booting, last, contested,
                 overlap, bounds>>

\* A file that no name and no handle refers to.
Unused == {i \in Inodes : i # json /\ i # tmp /\ \A u \in Threads : fd[u] # i}

\* A slip: config.json is written directly.
WritesInPlace == {json}

\* The file persist writes to: the temporary one, created when it is missing.
WritesTo == IF tmp = None THEN {CHOOSE i \in Unused : TRUE} ELSE {tmp}

\* persist, fs::write: open and truncate.
Truncate(t) ==
  /\ pc[t] = "truncate"
  /\ \E i \in WritesTo :
       /\ fd' = [fd EXCEPT ![t] = i]
       /\ disk' = [disk EXCEPT ![i] = Empty]
       /\ tmp' = i
  /\ Goto(t, "fill")
  /\ UNCHANGED <<inner, mirror, runtime, local, step, rebuild, target, json, booting, last,
                 contested, overlap, bounds>>

\* persist, fs::write: the text goes to the start of the file.  Over a text of
\* another handler that is longer, its tail remains.
Fill(t) ==
  /\ pc[t] = "fill"
  /\ \E x \in IF disk[fd[t]] \in {Empty, Text(local[t])}
                THEN {Text(local[t])}
                ELSE {Text(local[t]), Torn} :
       disk' = [disk EXCEPT ![fd[t]] = x]
  /\ fd' = [fd EXCEPT ![t] = None]
  /\ Goto(t, "rename")
  /\ UNCHANGED <<inner, mirror, runtime, local, step, rebuild, target, json, tmp, booting, last,
                 contested, overlap, bounds>>

\* A slip: the temporary file is written and never renamed.
RenameForgotten == UNCHANGED files

\* The rename replaces config.json, whose old text is gone unless a handle has it
\* open.  It fails, and that is only logged, when another handler took the name.
RenameTmp ==
  IF tmp = None
    THEN UNCHANGED files
    ELSE /\ disk' = [disk EXCEPT ![json] = IF \E u \in Threads : fd[u] = json THEN @ ELSE Empty]
         /\ json' = tmp
         /\ tmp' = None

\* persist: rename.  Then the call is over or goes on to rebuild_runtime.
Rename(t) ==
  /\ pc[t] = "rename"
  /\ RenameTmp
  /\ \/ rebuild[t] /\ Goto(t, "rebuild") /\ UNCHANGED <<local, rebuild, target>>
     \/ ~rebuild[t] /\ Finish(t)
  /\ UNCHANGED <<inner, mirror, runtime, step, fd, booting, last, contested, overlap, bounds>>

\* A slip: the upstream client is not rebuilt.
BuildExceptUpstream(t) ==
  runtime' = [runtime EXCEPT ![Parts[step[t]]] =
                IF Parts[step[t]] = "upstream" THEN @ ELSE local[t][Parts[step[t]]]]

BuildPart(t) == runtime' = [runtime EXCEPT ![Parts[step[t]]] = local[t][Parts[step[t]]]]

\* rebuild_runtime replaces the parts one after the other.
Build(t) ==
  /\ pc[t] = "build"
  /\ BuildPart(t)
  /\ IF step[t] < Len(Parts)
       THEN step' = [step EXCEPT ![t] = @ + 1] /\ UNCHANGED <<pc, local, rebuild, target>>
       ELSE step' = [step EXCEPT ![t] = 1] /\ Finish(t)
  /\ UNCHANGED <<inner, mirror, fd, files, booting, last, contested, overlap, bounds>>

-----------------------------------------------------------------------------
(* A crash, and load_or_init.                                              *)

\* A file that does not parse gives the default configuration.
Loaded == IF disk[json].kind = "text" THEN disk[json].cfg ELSE Default

\* The process dies and starts again.  A configuration without panel_token gets
\* a random one and is written back over config.json.
Crash ==
  /\ crashes < MaxCrashes
  /\ crashes' = crashes + 1
  /\ inner' = WithToken(Loaded)
  /\ mirror' = [f \in MirrorFields |-> Loaded[f]]
  /\ runtime' = [f \in PartFields |-> Loaded[f]]
  /\ pc' = [t \in Threads |-> "idle"]
  /\ local' = [t \in Threads |-> Default]
  /\ step' = [t \in Threads |-> 1]
  /\ rebuild' = [t \in Threads |-> FALSE]
  /\ target' = [t \in Threads |-> {}]
  /\ fd' = [t \in Threads |-> None]
  /\ booting' = IF Loaded["panel_token"] THEN "no" ELSE "truncate"
  /\ last' = inner'
  /\ contested' = {}
  /\ overlap' = {}
  /\ UNCHANGED <<files, ops>>

\* load_or_init, fs::write on config.json itself.
BootTruncate ==
  /\ booting = "truncate"
  /\ disk' = [disk EXCEPT ![json] = Empty]
  /\ booting' = "write"
  /\ UNCHANGED <<inner, mirror, runtime, locals, fd, json, tmp, last, contested, overlap, bounds>>

BootWrite ==
  /\ booting = "write"
  /\ disk' = [disk EXCEPT ![json] = Text(inner)]
  /\ booting' = "no"
  /\ UNCHANGED <<inner, mirror, runtime, locals, fd, json, tmp, last, contested, overlap, bounds>>

-----------------------------------------------------------------------------
Call(t) == PutConfig(t) \/ PatchConfig(t) \/ PauseResume(t) \/ RotateToken(t)

Update(t) ==
  \/ WriteInner(t)
  \/ SyncAtomics(t)
  \/ StoreMirror(t)
  \/ Persist(t)
  \/ Truncate(t)
  \/ Fill(t)
  \/ Rename(t)
  \/ RebuildRuntime(t)
  \/ Build(t)

Next ==
  \/ \E t \in Threads : Call(t) \/ Update(t)
  \/ Crash
  \/ BootTruncate
  \/ BootWrite

Spec == Init /\ [][Next]_vars

-----------------------------------------------------------------------------
(* Properties.                                                             *)

Quiescent == booting = "no" /\ \A t \in Threads : pc[t] = "idle"

\* A call that ran alone is undone by no later call on other fields, also when
\* those overlap each other: once all calls are over, the field it set has its
\* value, in memory (patch_segs writes the whole configuration back).
PatchesSurvive ==
  Quiescent => \A f \in Fields \ contested : inner[f] = last[f]

\* The mirrors the request path reads without a lock (fail_closed, paused) end
\* up equal to the configuration the console shows, whatever overlapping calls
\* left behind, once a call has run alone (sync_atomics).
MirrorsFollow ==
  Quiescent /\ "saved" \notin overlap => \A f \in MirrorFields : mirror[f] = inner[f]

\* Likewise the words, the command rules and the upstream in use are those of
\* the saved configuration, once a call that rebuilds has run alone
\* (rebuild_runtime).
RuntimeFollows ==
  Quiescent /\ "built" \notin overlap => \A f \in PartFields : runtime[f] = inner[f]

\* What a restart would load is what the console last confirmed, once a call has
\* run alone or the process has started (persist, load_or_init).
FileFollows == Quiescent /\ "saved" \notin overlap => disk[json] = Text(inner)

\* No step of a save that runs alone, and no crash during it, takes a config.json
\* that parses and leaves one that does not (persist: temporary file and rename).
SavesAtomic ==
  [][booting = "no" /\ "saved" \notin overlap /\ disk[json].kind = "text"
       => disk'[json'].kind = "text"]_vars

\* config.json can be parsed at every moment, so that a crash never sends the
\* gateway back to the default configuration (persist: "temporary file and
\* rename, to avoid a damaged file").
FileReadable == disk[json].kind = "text"

=============================================================================
