-------------------------- MODULE PlaceholderStore --------------------------
(***************************************************************************)
(* The placeholder mappings of the gateway: src/src/mask/session.rs (the   *)
(* in-memory SessionStore), the lookup part of src/src/mask/engine.rs, the *)
(* placeholder_map table of src/src/store/db.rs, and the start-up order of *)
(* src/src/main.rs.                                                        *)
(*                                                                         *)
(* A placeholder {{LABEL_suffix}} is a record [label, sfx].  Three layers  *)
(* remember what it stands for: the session of the running request, the    *)
(* process-wide reuse cache (recent_*, with the permanent custom_* tables  *)
(* for configured words) and the SQLite table db behind it.  Requests are  *)
(* masked by parallel threads, so a mint (recall_token) is two steps: the  *)
(* miss with the draw of a new token, and its installation.  A registration *)
(* of the configured words (seed_custom_words) is one step per word.       *)
(*                                                                         *)
(* mint is a history variable: the original a placeholder was FIRST bound  *)
(* to.  Everything the properties say about "the right original" is        *)
(* relative to it; no action reads it except the draw under FreshDraws.    *)
(***************************************************************************)
EXTENDS Naturals, FiniteSets, Sequences

CONSTANTS
  Originals,    \* the sensitive texts
  Words,        \* the originals that may be configured as custom words
  Labels,       \* category labels, raw and normalised
  SafeLabel,    \* safe_label as a function on Labels
  RuleLabel,    \* the label the rule that finds an original gives it
  Suffixes,     \* 6-consonant suffixes
  DetSuffix,    \* DetSuffix[w][c]: the suffix hashed from word w, counter c
  Sids,         \* request sessions
  RecentTtl,    \* RECENT_TTL
  MappingTtl,   \* mask.mapping_ttl, the lifetime of a row of placeholder_map
  RecentMax,    \* RECENT_MAX
  PruneSlack,   \* PRUNE_SLACK
  QueueMax,     \* bound: batches waiting for the database writer
  MaxTime,      \* bound: ticks of the clock
  MaxRequests,  \* bound: requests begun
  MaxChanges,   \* bound: configuration changes
  MaxRestarts,  \* bound: restarts of the process
  FreshDraws,   \* TRUE: the random generator never repeats a suffix
  Config,       \* names the thread that applies configuration changes
  None          \* absence of a value

Counters == DOMAIN DetSuffix[CHOOSE w \in Words : TRUE]

Opt(S) == S \cup {None}

Tokens == [label : Labels, sfx : Suffixes]

Token(l, x) == [label |-> l, sfx |-> x]

\* Suffixes that belong to configured words.
DetRange == {x \in Suffixes : \E w \in Words : \E c \in Counters : DetSuffix[w][c] = x}

Canonical(t) == Token(SafeLabel[t.label], t.sfx)

\* Entries of recent_fwd, recent_rev and custom_rev.
Fwd == [tok : Tokens, ts : Nat]
Rev == [orig : Originals, ts : Nat]
Registered == [orig : Words, label : Labels]

ASSUME ConstantsAssumption ==
  /\ Words \subseteq Originals
  /\ Words # {}
  /\ SafeLabel \in [Labels -> Labels]
  /\ \A l \in Labels : SafeLabel[SafeLabel[l]] = SafeLabel[l]
  /\ RuleLabel \in [Originals -> Labels]
  /\ Counters \subseteq Nat
  /\ DetSuffix \in [Words -> [Counters -> Suffixes]]
  /\ {RecentTtl, MappingTtl, RecentMax, PruneSlack, QueueMax, MaxTime,
      MaxRequests, MaxChanges, MaxRestarts} \subseteq Nat
  /\ FreshDraws \in BOOLEAN
  /\ Config \notin Sids
  /\ None \notin Originals /\ None \notin Tokens /\ None \notin Labels

\* An entry of a table is something.
ASSUME EntryAssumption == None \notin Fwd /\ None \notin Rev /\ None \notin Registered

\* The hash behind deterministic_suffix keeps different words apart.
ASSUME DetAssumption ==
  \A v, w \in Words : \A b, c \in Counters :
     DetSuffix[v][b] = DetSuffix[w][c] => v = w

VARIABLES
  now,            \* the clock
  recent_fwd,     \* original -> [tok, ts]
  recent_rev,     \* token -> [orig, ts]
  recent_suffix,  \* suffix -> token
  custom_fwd,     \* configured word -> token
  custom_rev,     \* token -> [orig, label]
  stage,          \* per session: absent, masking its request, or forwarded
  fwd,            \* per session: original -> token
  rev,            \* per session: token -> original
  pending,        \* per session: originals still to be persisted
  call,           \* per session: the mint its masking thread has begun
  hung,           \* threads blocked for ever
  db,             \* placeholder_map: token -> [orig, created, exp]
  queue,          \* mapping batches on their way to the writer
  cfg,            \* the configured words: word -> label
  seeding,        \* the registration of words in progress
  serving,        \* start-up is over
  spent,          \* how much of the three bounds above is used up
  mint            \* history: token -> the original it was first bound to

caches == <<recent_fwd, recent_rev, recent_suffix>>
customs == <<custom_fwd, custom_rev>>
sessions == <<stage, fwd, rev, pending>>
store == <<db, queue>>
config == <<cfg, seeding, serving>>
vars == <<now, caches, customs, sessions, call, hung, store, config, spent, mint>>

Threads == Sids \cup {Config}

Bounded == {"requests", "changes", "restarts"}

Row == [orig : Originals, created : Nat, exp : Nat]
Seed == [todo : SUBSET Words, used : SUBSET Suffixes]

TypeCaches ==
  /\ recent_fwd \in [Originals -> Opt(Fwd)]
  /\ recent_rev \in [Tokens -> Opt(Rev)]
  /\ recent_suffix \in [Suffixes -> Opt(Tokens)]

TypeCustoms ==
  /\ custom_fwd \in [Words -> Opt(Tokens)]
  /\ custom_rev \in [Tokens -> Opt(Registered)]

TypeSessions ==
  /\ stage \in [Sids -> {"absent", "masking", "forwarded"}]
  /\ fwd \in [Sids -> [Originals -> Opt(Tokens)]]
  /\ rev \in [Sids -> [Tokens -> Opt(Originals)]]
  /\ pending \in [Sids -> SUBSET Originals]

TypeThreads ==
  /\ call \in [Sids -> Opt([orig : Originals, tok : Tokens])]
  /\ hung \subseteq Threads

TypeStore ==
  /\ db \in [Tokens -> Opt(Row)]
  /\ queue \in Seq(SUBSET (Tokens \X Originals))

TypeConfig ==
  /\ cfg \in [Words -> Opt(Labels)]
  /\ seeding \in Opt(Seed)
  /\ seeding # None => \A w \in seeding.todo : cfg[w] # None
  /\ serving \in BOOLEAN

TypeRest ==
  /\ now \in Nat
  /\ spent \in [Bounded -> Nat]
  /\ mint \in [Tokens -> Opt(Originals)]

TypeOK ==
  /\ TypeCaches
  /\ TypeCustoms
  /\ TypeSessions
  /\ TypeThreads
  /\ TypeStore
  /\ TypeConfig
  /\ TypeRest

Empty(S) == [x \in S |-> None]

Init ==
  /\ now = 0
  /\ recent_fwd = Empty(Originals)
  /\ recent_rev = Empty(Tokens)
  /\ recent_suffix = Empty(Suffixes)
  /\ custom_fwd = Empty(Words)
  /\ custom_rev = Empty(Tokens)
  /\ stage = [s \in Sids |-> "absent"]
  /\ fwd = [s \in Sids |-> Empty(Originals)]
  /\ rev = [s \in Sids |-> Empty(Tokens)]
  /\ pending = [s \in Sids |-> {}]
  /\ call = Empty(Sids)
  /\ hung = {}
  /\ db = Empty(Tokens)
  /\ queue = <<>>
  /\ cfg = Empty(Words)
  /\ seeding = None
  /\ serving = TRUE
  /\ spent = [b \in Bounded |-> 0]
  /\ mint = Empty(Tokens)

-----------------------------------------------------------------------------
(* The suffix index.                                                       *)

\* suffix_index_add finds another token under the suffix.
Collides(index, t) == index[t.sfx] \notin {None, t}

\* suffix_index_add when there is no collision.
IndexAdd(index, t) == [index EXCEPT ![t.sfx] = t]

\* A slip: the index entry is forgotten when a token goes.
IndexDelForgotten(index, T) == index

\* suffix_index_del for every token of T: only entries that point at it.
IndexDel(index, T) ==
  [x \in Suffixes |-> IF index[x] \in T THEN None ELSE index[x]]

\* suffix_index_add of token t by thread th.  On a collision the code writes
\* recent_suffix while it still holds the read guard of the entry it found, so
\* the thread blocks for ever (DashMap locks are not re-entrant).
AddSuffix(index, t, th) ==
  IF Collides(index, t)
    THEN /\ hung' = hung \cup {th}
         /\ recent_suffix' = index
    ELSE /\ hung' = hung
         /\ recent_suffix' = IndexAdd(index, t)

-----------------------------------------------------------------------------
(* Looking up a placeholder.                                               *)

IsCustomOrig(o) ==
  o \in Words /\ custom_fwd[o] # None /\ custom_rev[custom_fwd[o]] # None

IsCustomToken(t) == custom_rev[t] # None

RecentUsable(t) ==
  /\ recent_rev[t] # None
  /\ \/ IsCustomOrig(recent_rev[t].orig)
     \/ IsCustomToken(t)
     \/ now <= recent_rev[t].ts + RecentTtl

Unexpired(t) == db[t] # None /\ db[t].exp > now

\* lookup: this session, then the reuse cache, then the configured words.
Lookup(t, s) ==
  IF rev[s][t] # None THEN rev[s][t]
  ELSE IF RecentUsable(t) THEN recent_rev[t].orig
  ELSE IF custom_rev[t] # None THEN custom_rev[t].orig
  ELSE None

LookupWithDb(t, s) ==
  IF Lookup(t, s) # None THEN Lookup(t, s)
  ELSE IF Unexpired(t) THEN db[t].orig
  ELSE None

\* A slip: any token under the suffix will do, whatever its label.
SuffixRealTokenAnyLabel(t) ==
  IF recent_suffix[t.sfx] \notin {None, t} THEN recent_suffix[t.sfx] ELSE None

\* suffix_real_token: a token under the same suffix whose label normalises
\* to the same text as the one the model wrote.
SuffixRealToken(t) ==
  LET real == recent_suffix[t.sfx] IN
  IF real # None /\ real # t /\ SafeLabel[real.label] = SafeLabel[t.label]
    THEN real ELSE None

\* What a restore writes for a braced placeholder t in a live session; the
\* suffix index is consulted for a damaged form that nothing else resolves.
RestoreOf(t, s) ==
  IF LookupWithDb(t, s) # None \/ SuffixRealToken(t) = None
    THEN LookupWithDb(t, s)
    ELSE LookupWithDb(SuffixRealToken(t), s)

-----------------------------------------------------------------------------
(* A request session and its masking thread.                               *)

\* new_session: the session table gets an empty entry.
NewSession(s) ==
  /\ serving
  /\ stage[s] = "absent"
  /\ stage' = [stage EXCEPT ![s] = "masking"]
  /\ spent["requests"] < MaxRequests
  /\ spent' = [spent EXCEPT !["requests"] = @ + 1]
  /\ UNCHANGED <<now, caches, customs, fwd, rev, pending, call, hung, store,
                 config, mint>>

\* drop_session, and sweep for a session that is no longer in flight.
EndSession(s) ==
  /\ stage[s] # "absent"
  /\ call[s] = None
  /\ s \notin hung
  /\ stage' = [stage EXCEPT ![s] = "absent"]
  /\ fwd' = [fwd EXCEPT ![s] = Empty(Originals)]
  /\ rev' = [rev EXCEPT ![s] = Empty(Tokens)]
  /\ pending' = [pending EXCEPT ![s] = {}]
  /\ UNCHANGED <<now, caches, customs, call, hung, store, config, mint, spent>>

\* The thread of session s is about to ask for the placeholder of o.
Masking(s, o) ==
  /\ stage[s] = "masking"
  /\ call[s] = None
  /\ s \notin hung
  /\ fwd[s][o] = None

\* A slip: only the forward direction is noted in the session.
RememberForwardOnly(s, o, t) ==
  /\ fwd' = [fwd EXCEPT ![s][o] = t]
  /\ pending' = [pending EXCEPT ![s] = @ \cup {o}]
  /\ UNCHANGED <<rev, stage>>

\* remember, after recall_token has answered t.
Remember(s, o, t) ==
  /\ fwd' = [fwd EXCEPT ![s][o] = t]
  /\ rev' = [rev EXCEPT ![s][t] = o]
  /\ pending' = [pending EXCEPT ![s] = @ \cup {o}]
  /\ stage' = stage

\* The thread of s blocked inside recall_token: the session learns nothing.
RememberUnless(hangs, s, o, t) ==
  IF hangs THEN UNCHANGED sessions ELSE Remember(s, o, t)

\* touch_recent
TouchRecent(t, o) ==
  /\ recent_rev' = IF recent_rev[t] = None THEN recent_rev
                   ELSE [recent_rev EXCEPT ![t] = [orig |-> recent_rev[t].orig, ts |-> now]]
  /\ recent_fwd' = IF recent_fwd[o] = None THEN recent_fwd
                   ELSE [recent_fwd EXCEPT ![o] = [tok |-> recent_fwd[o].tok, ts |-> now]]

\* A slip: token and original change places in the reverse entry.
RehydrateSwapped(t, o, th) ==
  /\ recent_fwd' = [recent_fwd EXCEPT ![o] = [tok |-> t, ts |-> now]]
  /\ recent_rev' = [recent_rev EXCEPT ![t] = [orig |-> t, ts |-> now]]
  /\ AddSuffix(recent_suffix, t, th)

\* rehydrate: a row of the database goes back into the reuse cache.
Rehydrate(t, o, th) ==
  /\ recent_fwd' = [recent_fwd EXCEPT ![o] = [tok |-> t, ts |-> now]]
  /\ recent_rev' = [recent_rev EXCEPT ![t] = [orig |-> o, ts |-> now]]
  /\ AddSuffix(recent_suffix, t, th)

CustomHit(o) == o \in Words /\ custom_fwd[o] # None

RecentHit(o) ==
  /\ recent_fwd[o] # None
  /\ IsCustomOrig(o) \/ now <= recent_fwd[o].ts + RecentTtl

\* A slip: the query forgets WHERE orig = ?.
DbHitsAny(o) == {t \in Tokens : Unexpired(t)}

\* The rows a lookup by original may return (LIMIT 1, no order).
DbHits(o) == {t \in Tokens : Unexpired(t) /\ db[t].orig = o}

\* recall_token answers with the permanent token of a configured word.
RecallCustom(s, o) ==
  /\ Masking(s, o)
  /\ CustomHit(o)
  /\ LET t == custom_fwd[o] IN
       /\ TouchRecent(t, o)
       /\ AddSuffix(recent_suffix, t, s)
       /\ RememberUnless(Collides(recent_suffix, t), s, o, t)
  /\ UNCHANGED <<now, customs, call, store, config, mint, spent>>

\* recall_token answers with the token of the reuse cache and refreshes it.
RecallRecent(s, o) ==
  /\ Masking(s, o)
  /\ ~CustomHit(o)
  /\ RecentHit(o)
  /\ LET t == recent_fwd[o].tok IN
       /\ AddSuffix(recent_suffix, t, s)
       /\ RememberUnless(Collides(recent_suffix, t), s, o, t)
       /\ IF Collides(recent_suffix, t)
            THEN UNCHANGED <<recent_fwd, recent_rev>>
            ELSE TouchRecent(t, o)
  /\ UNCHANGED <<now, customs, call, store, config, mint, spent>>

\* recall_token finds an unexpired row (LIMIT 1: any of them) in the database.
RecallDb(s, o) ==
  /\ Masking(s, o)
  /\ ~CustomHit(o)
  /\ ~RecentHit(o)
  /\ \E t \in DbHits(o) :
       /\ Rehydrate(t, o, s)
       /\ RememberUnless(Collides(recent_suffix, t), s, o, t)
  /\ UNCHANGED <<now, customs, call, store, config, mint, spent>>

\* token_taken: the tables in memory are asked, the database is not.
Taken(t) ==
  \/ recent_rev[t] # None
  \/ custom_rev[t] # None
  \/ recent_suffix[t.sfx] # None

\* new_token: a random token that is not taken; any token when all are (the
\* code gives up after 20 draws).
NewTokens(l) ==
  LET drawn == {Token(SafeLabel[l], x) : x \in Suffixes}
      free  == {t \in drawn : ~Taken(t)}
  IN IF free # {} THEN free ELSE drawn

\* With 19^6 suffixes a random draw does not repeat an earlier suffix.
NeverMinted(x) == x \notin DetRange /\ \A l \in Labels : mint[Token(l, x)] = None

FirstBinding(t, o) == IF mint[t] = None THEN [mint EXCEPT ![t] = o] ELSE mint

\* recall_token misses everywhere and draws a new token; other threads run
\* before it is installed.
RecallMiss(s, o) ==
  /\ Masking(s, o)
  /\ ~CustomHit(o)
  /\ ~RecentHit(o)
  /\ DbHits(o) = {}
  /\ \E t \in NewTokens(RuleLabel[o]) :
       /\ FreshDraws => NeverMinted(t.sfx)
       /\ call' = [call EXCEPT ![s] = [orig |-> o, tok |-> t]]
       /\ mint' = FirstBinding(t, o)
  /\ UNCHANGED <<now, caches, customs, sessions, hung, store, config, spent>>

Cached(f) == {o \in Originals : f[o] # None}

\* The sets of originals prune_recent may remove from cache f: the expired
\* ones, then the oldest of the rest down to RecentMax; configured words stay.
PruneChoices(f) ==
  LET ordinary == {o \in Cached(f) : ~IsCustomOrig(o)}
      stale    == {o \in ordinary : now > f[o].ts + RecentTtl}
      kept     == ordinary \ stale
      oldest(R) == \A a \in R, b \in kept \ R : f[a].ts <= f[b].ts
  IN IF Cardinality(kept) <= RecentMax
       THEN {stale}
       ELSE {stale \cup R : R \in {Q \in SUBSET kept :
               Cardinality(Q) = Cardinality(kept) - RecentMax /\ oldest(Q)}}

\* maybe_prune_recent: only above the watermark.
MaybePruneChoices(f) ==
  IF Cardinality(Cached(f)) <= RecentMax + PruneSlack THEN {{}} ELSE PruneChoices(f)

\* recent_fwd, recent_rev and recent_suffix without the originals of K.
DropFwd(f, K) == [o \in Originals |-> IF o \in K THEN None ELSE f[o]]

TokensOf(f, K) == {f[o].tok : o \in K}

DropRev(r, T) == [t \in Tokens |-> IF t \in T THEN None ELSE r[t]]

\* The previous token of o that a mint of t replaces in the cache.
Replaced(o, t) ==
  IF recent_fwd[o] # None /\ recent_fwd[o].tok # t THEN {recent_fwd[o].tok} ELSE {}

\* recall_token installs the token it drew, and prunes.
InstallToken(s) ==
  /\ call[s] # None
  /\ s \notin hung
  /\ LET o  == call[s].orig
         t  == call[s].tok
         f1 == [recent_fwd EXCEPT ![o] = [tok |-> t, ts |-> now]]
         r1 == [DropRev(recent_rev, Replaced(o, t)) EXCEPT ![t] = [orig |-> o, ts |-> now]]
         x1 == IndexDel(recent_suffix, Replaced(o, t))
     IN IF Collides(x1, t)
          THEN /\ recent_fwd' = f1
               /\ recent_rev' = r1
               /\ AddSuffix(x1, t, s)
               /\ UNCHANGED <<sessions, call>>
          ELSE /\ \E K \in MaybePruneChoices(f1) :
                    /\ recent_fwd' = DropFwd(f1, K)
                    /\ recent_rev' = DropRev(r1, TokensOf(f1, K))
                    /\ recent_suffix' = IndexDel(IndexAdd(x1, t), TokensOf(f1, K))
               /\ Remember(s, o, t)
               /\ call' = [call EXCEPT ![s] = None]
               /\ hung' = hung
  /\ UNCHANGED <<now, customs, store, config, mint, spent>>

\* seed_known: a placeholder the request text already carries is noted in the
\* session when the reuse cache knows it and it is fresh.
SeedKnown(s, t) ==
  /\ stage[s] = "masking"
  /\ call[s] = None
  /\ s \notin hung
  /\ rev[s][t] = None
  /\ recent_rev[t] # None
  /\ now <= recent_rev[t].ts + RecentTtl
  /\ rev' = [rev EXCEPT ![s][t] = recent_rev[t].orig]
  /\ UNCHANGED <<now, caches, customs, stage, fwd, pending, call, hung, store,
                 config, mint, spent>>

\* The request is masked: drain_pending_persist and save_mappings, which drops
\* the batch when the queue is full; then the request goes upstream.
Forward(s) ==
  /\ stage[s] = "masking"
  /\ call[s] = None
  /\ s \notin hung
  /\ LET batch == {<<fwd[s][o], o>> : o \in {p \in pending[s] : fwd[s][p] # None}} IN
       queue' = IF batch = {} \/ Len(queue) >= QueueMax THEN queue ELSE Append(queue, batch)
  /\ pending' = [pending EXCEPT ![s] = {}]
  /\ stage' = [stage EXCEPT ![s] = "forwarded"]
  /\ UNCHANGED <<now, caches, customs, fwd, rev, call, hung, db, config, mint, spent>>

Restoring(s) == stage[s] = "forwarded" /\ s \notin hung

\* lookup answers from the reuse cache and refreshes both of its tables.
RestoreRecent(s, t) ==
  /\ Restoring(s)
  /\ rev[s][t] = None
  /\ RecentUsable(t)
  /\ TouchRecent(t, recent_rev[t].orig)
  /\ UNCHANGED <<now, recent_suffix, customs, sessions, call, hung, store,
                 config, mint, spent>>

\* lookup_with_db answers from the database and refills the reuse cache.
RestoreDb(s, t) ==
  /\ Restoring(s)
  /\ Lookup(t, s) = None
  /\ Unexpired(t)
  /\ Rehydrate(t, db[t].orig, s)
  /\ UNCHANGED <<now, customs, sessions, call, store, config, mint, spent>>

-----------------------------------------------------------------------------
(* The database writer and the maintenance thread.                         *)

\* write_mappings: upsert by token; an existing row keeps its creation time.
WriteMappings ==
  /\ queue # <<>>
  /\ LET batch == Head(queue)
         origs(t) == {o \in Originals : <<t, o>> \in batch}
     IN \E pick \in [{t \in Tokens : origs(t) # {}} -> Originals] :
          /\ \A t \in DOMAIN pick : pick[t] \in origs(t)
          /\ db' = [t \in Tokens |->
               IF t \notin DOMAIN pick THEN db[t]
               ELSE [orig    |-> pick[t],
                     created |-> IF db[t] = None THEN now ELSE db[t].created,
                     exp     |-> now + MappingTtl]]
  /\ queue' = Tail(queue)
  /\ UNCHANGED <<now, caches, customs, sessions, call, hung, config, mint, spent>>

\* The batch is given up (the dead-letter path of flush_batch).
LoseMappings ==
  /\ queue # <<>>
  /\ queue' = Tail(queue)
  /\ UNCHANGED <<now, caches, customs, sessions, call, hung, db, config, mint, spent>>

\* PruneMappings: rows past their expiry are deleted.
PruneMappings ==
  /\ \E t \in Tokens : db[t] # None /\ ~Unexpired(t)
  /\ db' = [t \in Tokens |-> IF Unexpired(t) THEN db[t] ELSE None]
  /\ UNCHANGED <<now, caches, customs, sessions, call, hung, queue, config, mint, spent>>

Tick ==
  /\ now < MaxTime
  /\ now' = now + 1
  /\ UNCHANGED <<caches, customs, sessions, call, hung, store, config, mint, spent>>

-----------------------------------------------------------------------------
(* Configured words: seed_custom_words, run by rebuild_runtime on every    *)
(* configuration change and by AppState::new at start-up.                  *)

IndexedSuffixes(index) == {x \in Suffixes : index[x] # None}

\* The suffixes a derivation avoids: those of the registered words and those
\* of the suffix index.
UsedSuffixes(crev, index) ==
  {t.sfx : t \in {u \in Tokens : crev[u] # None}} \cup IndexedSuffixes(index)

\* Steps 1 and 2: words that are gone lose their tokens, then the suffixes in
\* use are collected.
SeedBegin(c) ==
  /\ serving
  /\ seeding = None
  /\ Config \notin hung
  /\ LET gone == {w \in Words : custom_fwd[w] # None /\ c[w] = None}
         T    == {custom_fwd[w] : w \in gone}
         crev == [t \in Tokens |-> IF t \in T THEN None ELSE custom_rev[t]]
         index == IndexDel(recent_suffix, T)
     IN /\ custom_fwd' = [w \in Words |-> IF w \in gone THEN None ELSE custom_fwd[w]]
        /\ custom_rev' = crev
        /\ recent_suffix' = index
        /\ seeding' = [todo |-> {w \in Words : c[w] # None}, used |-> UsedSuffixes(crev, index)]
  /\ cfg' = c
  /\ spent["changes"] < MaxChanges
  /\ spent' = [spent EXCEPT !["changes"] = @ + 1]
  /\ UNCHANGED <<now, recent_fwd, recent_rev, sessions, call, hung, store,
                 serving, mint>>

\* A registered word whose normalised label has not changed keeps its token.
KeepsToken(w) ==
  /\ custom_fwd[w] # None
  /\ custom_rev[custom_fwd[w]] # None
  /\ SafeLabel[custom_rev[custom_fwd[w]].label] = SafeLabel[cfg[w]]

\* deterministic_suffix takes the first counter whose suffix is not in use.
FirstFree(w, c) ==
  /\ DetSuffix[w][c] \notin seeding.used
  /\ \A b \in Counters : b < c => DetSuffix[w][b] \in seeding.used

\* Step 3 for a word that keeps its token: only its raw label is renewed.
SeedKeep(w) ==
  /\ seeding # None
  /\ w \in seeding.todo
  /\ Config \notin hung
  /\ KeepsToken(w)
  /\ custom_rev' = [custom_rev EXCEPT ![custom_fwd[w]] =
       [orig |-> custom_rev[custom_fwd[w]].orig, label |-> cfg[w]]]
  /\ seeding' = [todo |-> seeding.todo \ {w}, used |-> seeding.used]
  /\ UNCHANGED <<now, caches, custom_fwd, sessions, call, hung, store, cfg,
                 serving, mint, spent>>

\* Step 3 for a new or relabelled word: the old token goes, a new one is
\* derived and registered.
SeedDerive(w) ==
  /\ seeding # None
  /\ w \in seeding.todo
  /\ Config \notin hung
  /\ ~KeepsToken(w)
  /\ \E c \in Counters :
       LET t     == Token(SafeLabel[cfg[w]], DetSuffix[w][c])
           old   == {custom_fwd[w]} \ {None}
           index == IndexDel(recent_suffix, old)
       IN /\ FirstFree(w, c)
          /\ custom_fwd' = [custom_fwd EXCEPT ![w] = t]
          /\ custom_rev' = [u \in Tokens |->
               IF u = t THEN [orig |-> w, label |-> cfg[w]]
               ELSE IF u \in old THEN None ELSE custom_rev[u]]
          /\ AddSuffix(index, t, Config)
          /\ seeding' = [todo |-> seeding.todo \ {w}, used |-> seeding.used \cup {t.sfx}]
          /\ mint' = FirstBinding(t, w)
  /\ UNCHANGED <<now, recent_fwd, recent_rev, sessions, call, store, cfg, serving, spent>>

\* All words are registered; at start-up the listener opens only now.
SeedDone ==
  /\ seeding # None
  /\ seeding.todo = {}
  /\ Config \notin hung
  /\ seeding' = None
  /\ serving' = TRUE
  /\ UNCHANGED <<now, caches, customs, sessions, call, hung, store, cfg, mint, spent>>

-----------------------------------------------------------------------------
(* The process dies and starts again: load_mappings, warmup_from_events,    *)
(* then the registration of the configured words.                          *)

\* load_mappings: the RecentMax newest unexpired rows (ties in any order).
LoadChoices ==
  LET rows == {t \in Tokens : Unexpired(t)}
      n    == IF Cardinality(rows) <= RecentMax THEN Cardinality(rows) ELSE RecentMax
  IN {R \in SUBSET rows : /\ Cardinality(R) = n
                          /\ \A t \in R, u \in rows \ R : db[t].created >= db[u].created}

\* warmup_from_events keeps, per original, the newest of the loaded rows.  At
\* most RecentMax originals are loaded, so its prune_recent removes nothing.
WarmChoices(R) ==
  {W \in SUBSET R :
     /\ \A t \in R : \E u \in W : db[u].orig = db[t].orig /\ db[u].created >= db[t].created
     /\ \A t, u \in W : db[t].orig = db[u].orig => t = u}

Restart ==
  /\ \E R \in LoadChoices : \E W \in WarmChoices(R) :
       /\ hung' = IF \E t, u \in W : t # u /\ t.sfx = u.sfx THEN {Config} ELSE {}
       /\ recent_fwd' = [o \in Originals |->
            IF \E t \in W : db[t].orig = o
              THEN [tok |-> CHOOSE t \in W : db[t].orig = o, ts |-> now] ELSE None]
       /\ recent_rev' = [t \in Tokens |->
            IF t \in W THEN [orig |-> db[t].orig, ts |-> now] ELSE None]
       /\ recent_suffix' = [x \in Suffixes |->
            IF \E t \in W : t.sfx = x THEN CHOOSE t \in W : t.sfx = x ELSE None]
       /\ seeding' = [todo |-> {w \in Words : cfg[w] # None}, used |-> {t.sfx : t \in W}]
  /\ custom_fwd' = Empty(Words)
  /\ custom_rev' = Empty(Tokens)
  /\ stage' = [s \in Sids |-> "absent"]
  /\ fwd' = [s \in Sids |-> Empty(Originals)]
  /\ rev' = [s \in Sids |-> Empty(Tokens)]
  /\ pending' = [s \in Sids |-> {}]
  /\ call' = Empty(Sids)
  /\ queue' = <<>>
  /\ serving' = FALSE
  /\ spent["restarts"] < MaxRestarts
  /\ spent' = [spent EXCEPT !["restarts"] = @ + 1]
  /\ UNCHANGED <<now, db, cfg, mint>>

-----------------------------------------------------------------------------
SessionStep(s) ==
  \/ NewSession(s)
  \/ EndSession(s)
  \/ \E o \in Originals : RecallCustom(s, o) \/ RecallRecent(s, o)
                          \/ RecallDb(s, o) \/ RecallMiss(s, o)
  \/ InstallToken(s)
  \/ \E t \in Tokens : SeedKnown(s, t) \/ RestoreRecent(s, t) \/ RestoreDb(s, t)
  \/ Forward(s)

ConfigStep ==
  \/ \E c \in [Words -> Opt(Labels)] : SeedBegin(c)
  \/ \E w \in Words : SeedKeep(w) \/ SeedDerive(w)
  \/ SeedDone

StoreStep == WriteMappings \/ LoseMappings \/ PruneMappings

Next ==
  \/ \E s \in Sids : SessionStep(s)
  \/ ConfigStep
  \/ StoreStep
  \/ Tick
  \/ Restart

Spec == Init /\ [][Next]_vars

-----------------------------------------------------------------------------
(* Properties.                                                             *)

Live(s) == stage[s] # "absent"

\* A restore never yields another value's text: whatever threads, evictions,
\* relabelled words, database refills or restarts came between, a placeholder
\* echoed to any session (in its exact or in a damaged label form) resolves to
\* the original it was first minted for, or stays as it is (lookup_with_db).
RestoreFaithful ==
  \A s \in Sids, t \in Tokens :
     Live(s) /\ RestoreOf(t, s) # None => RestoreOf(t, s) = mint[Canonical(t)]

\* Round trip: every placeholder a session put into its own request is
\* restored to the value it replaced for as long as the session lives, even
\* if the cache evicted, relabelled or rebound it meanwhile (remember, lookup).
SessionRoundTrip ==
  \A s \in Sids, o \in Originals :
     Live(s) /\ fwd[s][o] # None => RestoreOf(fwd[s][o], s) = o

\* The suffix index never points at a placeholder the process has forgotten:
\* evictions, relabelling and replaced mints all take their index entry along.
IndexBacked ==
  \A x \in Suffixes : recent_suffix[x] # None =>
     /\ recent_suffix[x].sfx = x
     /\ recent_rev[recent_suffix[x]] # None \/ custom_rev[recent_suffix[x]] # None

-----------------------------------------------------------------------------
(* The inductive invariant behind RestoreFaithful and SessionRoundTrip:     *)
(* every table that can answer a lookup agrees with mint.                   *)

AgreeCaches ==
  /\ \A o \in Originals : recent_fwd[o] # None => mint[recent_fwd[o].tok] = o
  /\ \A t \in Tokens : recent_rev[t] # None => mint[t] = recent_rev[t].orig
  /\ \A x \in Suffixes : recent_suffix[x] # None =>
        recent_suffix[x].sfx = x /\ mint[recent_suffix[x]] # None

AgreeCustoms ==
  /\ \A w \in Words : custom_fwd[w] # None => mint[custom_fwd[w]] = w
  /\ \A t \in Tokens : custom_rev[t] # None => mint[t] = custom_rev[t].orig

AgreeSessions ==
  \A s \in Sids :
    /\ \A t \in Tokens : rev[s][t] # None => mint[t] = rev[s][t]
    /\ \A o \in Originals : fwd[s][o] # None => rev[s][fwd[s][o]] = o

AgreeThreads == \A s \in Sids : call[s] # None => mint[call[s].tok] = call[s].orig

AgreeStore ==
  /\ \A t \in Tokens : db[t] # None => mint[t] = db[t].orig
  /\ \A i \in 1..Len(queue) : \A p \in queue[i] : mint[p[1]] = p[2]

\* Minted labels are normalised, and the suffixes of words stay theirs.
MintShape ==
  \A t \in Tokens : mint[t] # None =>
    /\ SafeLabel[t.label] = t.label
    /\ \A w \in Words : \A c \in Counters : t.sfx = DetSuffix[w][c] => mint[t] = w

Agreement ==
  /\ AgreeCaches
  /\ AgreeCustoms
  /\ AgreeSessions
  /\ AgreeThreads
  /\ AgreeStore
  /\ MintShape

-----------------------------------------------------------------------------
(* What a comment of the source promises and the run placeholder_hang       *)
(* refutes.                                                                 *)

\* suffix_index_add "on a collision marks the entry Ambiguous": no thread that
\* registers a suffix may block for ever.
NoThreadHangs == hung = {}

=============================================================================
