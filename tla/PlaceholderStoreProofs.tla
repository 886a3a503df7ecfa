----------------------- MODULE PlaceholderStoreProofs -----------------------
(***************************************************************************)
(* Proofs about PlaceholderStore, for any sets of originals, words,         *)
(* labels, suffixes and sessions and any values of the bounds.              *)
(***************************************************************************)
EXTENDS PlaceholderStore, TLAPS

\* Tokens are records of a label and a suffix.
LEMMA TokenFields ==
  /\ \A t \in Tokens : t.label \in Labels /\ t.sfx \in Suffixes /\ t = Token(t.label, t.sfx)
  /\ \A l \in Labels, x \in Suffixes :
        Token(l, x) \in Tokens /\ Token(l, x).label = l /\ Token(l, x).sfx = x
  BY DEF Tokens, Token

USE DEF Opt, Fwd, Rev, Registered, Row, Seed, Threads, Empty

-----------------------------------------------------------------------------
(* Type correctness.  One lemma per building block of the actions.          *)

LEMMA RememberType ==
  ASSUME NEW s \in Sids, NEW o \in Originals, NEW t \in Tokens, TypeSessions, Remember(s, o, t)
  PROVE  TypeSessions'
  BY DEF TypeSessions, Remember

LEMMA TouchType ==
  ASSUME NEW o \in Originals, NEW t \in Tokens, TypeCaches, now \in Nat, TouchRecent(t, o)
  PROVE  /\ recent_fwd' \in [Originals -> Opt(Fwd)]
         /\ recent_rev' \in [Tokens -> Opt(Rev)]
  BY DEF TypeCaches, TouchRecent

LEMMA AddSuffixType ==
  ASSUME NEW index \in [Suffixes -> Opt(Tokens)], NEW t \in Tokens, NEW th \in Threads,
         hung \subseteq Threads, AddSuffix(index, t, th)
  PROVE  recent_suffix' \in [Suffixes -> Opt(Tokens)] /\ hung' \subseteq Threads
  BY TokenFields DEF AddSuffix, IndexAdd

LEMMA IndexDelType ==
  ASSUME NEW index \in [Suffixes -> Opt(Tokens)], NEW T
  PROVE  IndexDel(index, T) \in [Suffixes -> Opt(Tokens)]
  BY DEF IndexDel

LEMMA RehydrateType ==
  ASSUME NEW o \in Originals, NEW t \in Tokens, NEW th \in Threads, TypeCaches,
         hung \subseteq Threads, now \in Nat, Rehydrate(t, o, th)
  PROVE  TypeCaches' /\ hung' \subseteq Threads
  BY AddSuffixType DEF TypeCaches, Rehydrate

LEMMA FirstBindingType ==
  ASSUME NEW o \in Originals, NEW t \in Tokens, mint \in [Tokens -> Opt(Originals)]
  PROVE  FirstBinding(t, o) \in [Tokens -> Opt(Originals)]
  BY DEF FirstBinding

LEMMA SessionType ==
  ASSUME NEW s \in Sids, TypeOK, SessionStep(s)
  PROVE  TypeOK'
  <1> USE ConstantsAssumption
  <1> s \in Threads
    OBVIOUS
  <1>1. CASE NewSession(s)
    <2>1. spent' \in [Bounded -> Nat]
      BY <1>1 DEF NewSession, TypeOK, TypeRest, Bounded
    <2>2. QED
      BY <1>1, <2>1 DEF NewSession, TypeOK, TypeCaches, TypeCustoms, TypeSessions, TypeThreads, TypeStore,
       TypeConfig, TypeRest, caches, customs, store, config
  <1>2. CASE EndSession(s)
    <2>1. TypeSessions'
      BY <1>2 DEF EndSession, TypeOK, TypeSessions
    <2>2. QED
      BY <1>2, <2>1 DEF EndSession, TypeOK, TypeCaches, TypeCustoms, TypeThreads, TypeStore,
         TypeConfig, TypeRest, caches, customs, store, config
  <1>3. ASSUME NEW o \in Originals, RecallCustom(s, o) PROVE TypeOK'
    <2>1. /\ custom_fwd[o] \in Tokens
          /\ TouchRecent(custom_fwd[o], o)
          /\ AddSuffix(recent_suffix, custom_fwd[o], s)
          /\ UNCHANGED sessions \/ Remember(s, o, custom_fwd[o])
          /\ UNCHANGED <<now, customs, call, store, config, mint, spent>>
      BY <1>3 DEF RecallCustom, CustomHit, RememberUnless, TypeOK, TypeCustoms
    <2>2. TypeCaches' /\ hung' \subseteq Threads
      BY <2>1, TouchType, AddSuffixType DEF TypeOK, TypeCaches, TypeThreads, TypeRest
    <2>3. TypeSessions'
      BY <2>1, RememberType DEF TypeOK, TypeSessions, sessions
    <2>4. QED
      BY <2>1, <2>2, <2>3 DEF TypeOK, TypeCustoms, TypeThreads, TypeStore, TypeConfig, TypeRest,
         customs, store, config
  <1>4. ASSUME NEW o \in Originals, RecallRecent(s, o) PROVE TypeOK'
    <2>1. /\ recent_fwd[o].tok \in Tokens
          /\ \/ TouchRecent(recent_fwd[o].tok, o)
             \/ UNCHANGED <<recent_fwd, recent_rev>>
          /\ AddSuffix(recent_suffix, recent_fwd[o].tok, s)
          /\ UNCHANGED sessions \/ Remember(s, o, recent_fwd[o].tok)
          /\ UNCHANGED <<now, customs, call, store, config, mint, spent>>
      BY <1>4 DEF RecallRecent, RecentHit, RememberUnless, TypeOK, TypeCaches
    <2>2. TypeCaches' /\ hung' \subseteq Threads
      BY <2>1, TouchType, AddSuffixType DEF TypeOK, TypeCaches, TypeThreads, TypeRest
    <2>3. TypeSessions'
      BY <2>1, RememberType DEF TypeOK, TypeSessions, sessions
    <2>4. QED
      BY <2>1, <2>2, <2>3 DEF TypeOK, TypeCustoms, TypeThreads, TypeStore, TypeConfig, TypeRest,
         customs, store, config
  <1>5. ASSUME NEW o \in Originals, RecallDb(s, o) PROVE TypeOK'
    <2>1. PICK t \in Tokens : /\ Rehydrate(t, o, s)
                              /\ UNCHANGED sessions \/ Remember(s, o, t)
      BY <1>5 DEF RecallDb, DbHits, RememberUnless
    <2>2. UNCHANGED <<now, customs, call, store, config, mint, spent>>
      BY <1>5 DEF RecallDb
    <2>3. TypeCaches' /\ hung' \subseteq Threads
      BY <2>1, RehydrateType DEF TypeOK, TypeThreads, TypeRest
    <2>4. TypeSessions'
      BY <2>1, RememberType DEF TypeOK, TypeSessions, sessions
    <2>5. QED
      BY <2>2, <2>3, <2>4 DEF TypeOK, TypeCustoms, TypeThreads, TypeStore, TypeConfig, TypeRest,
         customs, store, config
  <1>6. ASSUME NEW o \in Originals, RecallMiss(s, o) PROVE TypeOK'
    <2>1. PICK t \in NewTokens(RuleLabel[o]) :
             /\ call' = [call EXCEPT ![s] = [orig |-> o, tok |-> t]]
             /\ mint' = FirstBinding(t, o)
      BY <1>6 DEF RecallMiss
    <2>2. t \in Tokens
      BY TokenFields DEF NewTokens
    <2>3. TypeThreads' /\ TypeRest'
      BY <1>6, <2>1, <2>2, FirstBindingType DEF RecallMiss, TypeOK, TypeThreads, TypeRest
    <2>4. QED
      BY <1>6, <2>3 DEF RecallMiss, TypeOK, TypeCaches, TypeCustoms, TypeSessions, TypeStore,
         TypeConfig, caches, customs, sessions, store, config
  <1>7. CASE InstallToken(s)
    <2> DEFINE o  == call[s].orig
               t  == call[s].tok
               f1 == [recent_fwd EXCEPT ![o] = [tok |-> t, ts |-> now]]
               r1 == [DropRev(recent_rev, Replaced(o, t)) EXCEPT ![t] = [orig |-> o, ts |-> now]]
               x1 == IndexDel(recent_suffix, Replaced(o, t))
    <2>1. o \in Originals /\ t \in Tokens
      BY <1>7 DEF InstallToken, TypeOK, TypeThreads
    <2>2. f1 \in [Originals -> Opt(Fwd)] /\ r1 \in [Tokens -> Opt(Rev)]
      BY <2>1 DEF DropRev, TypeOK, TypeCaches, TypeRest
    <2>3. x1 \in [Suffixes -> Opt(Tokens)]
      BY IndexDelType DEF TypeOK, TypeCaches
    <2>4. UNCHANGED <<now, customs, store, config, mint, spent>>
      BY <1>7 DEF InstallToken
    <2> HIDE DEF o, t, f1, r1, x1
    <2>5. CASE /\ recent_fwd' = f1
               /\ recent_rev' = r1
               /\ AddSuffix(x1, t, s)
               /\ UNCHANGED <<sessions, call>>
      BY <2>1, <2>2, <2>3, <2>4, <2>5, AddSuffixType DEF TypeOK, TypeCaches, TypeCustoms,
         TypeSessions, TypeThreads, TypeStore, TypeConfig, TypeRest, customs, sessions, store, config
    <2>6. ASSUME NEW K,
                 /\ recent_fwd' = DropFwd(f1, K)
                 /\ recent_rev' = DropRev(r1, TokensOf(f1, K))
                 /\ recent_suffix' = IndexDel(IndexAdd(x1, t), TokensOf(f1, K)),
                 /\ Remember(s, o, t)
                 /\ call' = [call EXCEPT ![s] = None]
                 /\ hung' = hung
          PROVE  TypeOK'
      <3>1. IndexAdd(x1, t) \in [Suffixes -> Opt(Tokens)]
        BY <2>1, <2>3, TokenFields DEF IndexAdd
      <3>2. TypeCaches'
        BY <2>2, <2>6, <3>1, IndexDelType DEF TypeCaches, DropFwd, DropRev
      <3>3. TypeSessions'
        BY <2>1, <2>6, RememberType DEF TypeOK
      <3>4. QED
        BY <2>4, <2>6, <3>2, <3>3 DEF TypeOK, TypeCustoms, TypeThreads, TypeStore, TypeConfig,
           TypeRest, customs, store, config
    <2>7. QED
      BY <1>7, <2>5, <2>6 DEF InstallToken, o, t, f1, r1, x1
  <1>8. ASSUME NEW t \in Tokens, SeedKnown(s, t) PROVE TypeOK'
    <2>1. rev' \in [Sids -> [Tokens -> Opt(Originals)]]
      BY <1>8 DEF SeedKnown, TypeOK, TypeSessions, TypeCaches
    <2>2. QED
      BY <1>8, <2>1 DEF SeedKnown, TypeOK, TypeCaches, TypeCustoms, TypeSessions, TypeThreads,
         TypeStore, TypeConfig, TypeRest, caches, customs, store, config
  <1>9. ASSUME NEW t \in Tokens, RestoreRecent(s, t) PROVE TypeOK'
    <2>1. recent_rev[t].orig \in Originals
      BY <1>9 DEF RestoreRecent, RecentUsable, TypeOK, TypeCaches
    <2>2. TypeCaches'
      BY <1>9, <2>1, TouchType DEF RestoreRecent, TypeOK, TypeCaches, TypeRest
    <2>3. QED
      BY <1>9, <2>2 DEF RestoreRecent, TypeOK, TypeCustoms, TypeSessions, TypeThreads, TypeStore,
         TypeConfig, TypeRest, customs, sessions, store, config
  <1>10. ASSUME NEW t \in Tokens, RestoreDb(s, t) PROVE TypeOK'
    <2>1. db[t].orig \in Originals
      BY <1>10 DEF RestoreDb, Unexpired, TypeOK, TypeStore
    <2>2. TypeCaches' /\ hung' \subseteq Threads
      BY <1>10, <2>1, RehydrateType DEF RestoreDb, TypeOK, TypeThreads, TypeRest
    <2>3. QED
      BY <1>10, <2>2 DEF RestoreDb, TypeOK, TypeCustoms, TypeSessions, TypeThreads, TypeStore,
         TypeConfig, TypeRest, customs, sessions, store, config
  <1>11. CASE Forward(s)
    <2> DEFINE batch == {<<fwd[s][o], o>> : o \in {p \in pending[s] : fwd[s][p] # None}}
    <2>2. batch \in SUBSET (Tokens \X Originals)
      BY DEF TypeOK, TypeSessions
    <2>3. TypeStore' /\ TypeSessions'
      BY <1>11, <2>2 DEF Forward, TypeOK, TypeStore, TypeSessions
    <2>4. QED
      BY <1>11, <2>3 DEF Forward, TypeOK, TypeCaches, TypeCustoms, TypeThreads, TypeConfig,
         TypeRest, caches, customs, config
  <1>12. QED
    BY <1>1, <1>2, <1>3, <1>4, <1>5, <1>6, <1>7, <1>8, <1>9, <1>10, <1>11 DEF SessionStep

LEMMA ConfigType ==
  ASSUME TypeOK, ConfigStep
  PROVE  TypeOK'
  <1> USE ConstantsAssumption
  <1> Config \in Threads
    OBVIOUS
  <1>1. ASSUME NEW c \in [Words -> Opt(Labels)], SeedBegin(c) PROVE TypeOK'
    <2>1. custom_fwd' \in [Words -> Opt(Tokens)]
      BY <1>1 DEF SeedBegin, TypeOK, TypeCustoms
    <2>2. custom_rev' \in [Tokens -> Opt(Registered)]
      BY <1>1 DEF SeedBegin, TypeOK, TypeCustoms
    <2>3. recent_suffix' \in [Suffixes -> Opt(Tokens)]
      BY <1>1, IndexDelType DEF SeedBegin, TypeOK, TypeCaches
    <2>4. ASSUME NEW crev, NEW index PROVE UsedSuffixes(crev, index) \subseteq Suffixes
      BY TokenFields DEF UsedSuffixes, IndexedSuffixes
    <2>5. TypeConfig'
      BY <1>1, <2>4 DEF SeedBegin, TypeOK, TypeConfig
    <2>6. spent' \in [Bounded -> Nat]
      BY <1>1 DEF SeedBegin, TypeOK, TypeRest, Bounded
    <2>7. QED
      BY <1>1, <2>1, <2>2, <2>3, <2>5, <2>6 DEF SeedBegin, TypeOK, TypeCaches, TypeCustoms,
         TypeSessions, TypeThreads, TypeStore, TypeConfig, TypeRest, sessions, store
  <1>2. ASSUME NEW w \in Words, SeedKeep(w) PROVE TypeOK'
    <2>1. cfg[w] \in Opt(Labels) /\ seeding \in Seed /\ custom_fwd[w] \in Tokens
      BY <1>2 DEF SeedKeep, KeepsToken, TypeOK, TypeConfig, TypeCustoms
    <2>2. cfg[w] \in Labels
      BY <1>2, <2>1 DEF SeedKeep, TypeOK, TypeConfig
    <2>3. TypeCustoms' /\ TypeConfig'
      BY <1>2, <2>1, <2>2 DEF SeedKeep, KeepsToken, TypeOK, TypeCustoms, TypeConfig
    <2>4. QED
      BY <1>2, <2>3 DEF SeedKeep, TypeOK, TypeCaches, TypeSessions, TypeThreads, TypeStore,
         TypeRest, caches, sessions, store
  <1>3. ASSUME NEW w \in Words, SeedDerive(w) PROVE TypeOK'
    <2> DEFINE tok(c) == Token(SafeLabel[cfg[w]], DetSuffix[w][c])
               old    == {custom_fwd[w]} \ {None}
               index  == IndexDel(recent_suffix, old)
    <2>1. PICK c \in Counters :
            /\ custom_fwd' = [custom_fwd EXCEPT ![w] = tok(c)]
            /\ custom_rev' = [u \in Tokens |->
                 IF u = tok(c) THEN [orig |-> w, label |-> cfg[w]]
                 ELSE IF u \in old THEN None ELSE custom_rev[u]]
            /\ AddSuffix(index, tok(c), Config)
            /\ seeding' = [todo |-> seeding.todo \ {w}, used |-> seeding.used \cup {tok(c).sfx}]
            /\ mint' = FirstBinding(tok(c), w)
      BY <1>3 DEF SeedDerive
    <2>2. cfg[w] \in Labels /\ seeding \in Seed
      BY <1>3 DEF SeedDerive, TypeOK, TypeConfig
    <2>3. tok(c) \in Tokens /\ tok(c).sfx \in Suffixes
      BY <2>2, TokenFields
    <2>4. index \in [Suffixes -> Opt(Tokens)]
      BY IndexDelType DEF TypeOK, TypeCaches
    <2> HIDE DEF tok, old, index
    <2>5. TypeCustoms'
      BY <2>1, <2>2, <2>3 DEF TypeOK, TypeCustoms
    <2>6. recent_suffix' \in [Suffixes -> Opt(Tokens)] /\ hung' \subseteq Threads
      BY <2>1, <2>3, <2>4, AddSuffixType DEF TypeOK, TypeThreads
    <2>7. TypeConfig'
      BY <1>3, <2>1, <2>2, <2>3 DEF SeedDerive, TypeOK, TypeConfig
    <2>8. mint' \in [Tokens -> Opt(Originals)]
      BY <2>1, <2>3, FirstBindingType DEF TypeOK, TypeRest
    <2>9. QED
      BY <1>3, <2>5, <2>6, <2>7, <2>8 DEF SeedDerive, TypeOK, TypeCaches, TypeSessions,
         TypeThreads, TypeStore, TypeRest, sessions, store
  <1>4. CASE SeedDone
    BY <1>4 DEF SeedDone, TypeOK, TypeCaches, TypeCustoms, TypeSessions, TypeThreads, TypeStore,
       TypeConfig, TypeRest, caches, customs, sessions, store
  <1>5. QED
    BY <1>1, <1>2, <1>3, <1>4 DEF ConfigStep

LEMMA StoreType ==
  ASSUME TypeOK, StoreStep
  PROVE  TypeOK'
  <1>1. CASE WriteMappings
    <2>1. queue # <<>> /\ queue' = Tail(queue)
      BY <1>1 DEF WriteMappings
    <2>2. queue' \in Seq(SUBSET (Tokens \X Originals))
      BY <2>1 DEF TypeOK, TypeStore
    <2>3. db' \in [Tokens -> Opt(Row)]
      <3>1. PICK P : \E pick \in [P -> Originals] :
               db' = [t \in Tokens |->
                 IF t \notin DOMAIN pick THEN db[t]
                 ELSE [orig    |-> pick[t],
                       created |-> IF db[t] = None THEN now ELSE db[t].created,
                       exp     |-> now + MappingTtl]]
        BY <1>1 DEF WriteMappings
      <3>2. QED
        BY <3>1, ConstantsAssumption DEF TypeOK, TypeStore, TypeRest
    <2>4. QED
      BY <1>1, <2>2, <2>3 DEF WriteMappings, TypeOK, TypeCaches, TypeCustoms, TypeSessions,
         TypeThreads, TypeStore, TypeConfig, TypeRest, caches, customs, sessions, config
  <1>2. CASE LoseMappings
    BY <1>2 DEF LoseMappings, TypeOK, TypeCaches, TypeCustoms, TypeSessions,
       TypeThreads, TypeStore, TypeConfig, TypeRest, caches, customs, sessions, config
  <1>3. CASE PruneMappings
    BY <1>3 DEF PruneMappings, TypeOK, TypeCaches, TypeCustoms, TypeSessions,
       TypeThreads, TypeStore, TypeConfig, TypeRest, caches, customs, sessions, config
  <1>4. QED
    BY <1>1, <1>2, <1>3 DEF StoreStep

\* The tables Restart builds from the rows W of the database.
LEMMA RestartFacts ==
  ASSUME TypeOK, Restart
  PROVE  \E W \in SUBSET {t \in Tokens : db[t] # None} :
           /\ hung' \subseteq {Config}
           /\ recent_fwd' = [o \in Originals |->
                IF \E t \in W : db[t].orig = o
                  THEN [tok |-> CHOOSE t \in W : db[t].orig = o, ts |-> now] ELSE None]
           /\ recent_rev' = [t \in Tokens |->
                IF t \in W THEN [orig |-> db[t].orig, ts |-> now] ELSE None]
           /\ recent_suffix' = [x \in Suffixes |->
                IF \E t \in W : t.sfx = x THEN CHOOSE t \in W : t.sfx = x ELSE None]
           /\ seeding' = [todo |-> {w \in Words : cfg[w] # None}, used |-> {t.sfx : t \in W}]
  <1>1. PICK R \in LoadChoices : \E W \in WarmChoices(R) :
           /\ hung' = IF \E t, u \in W : t # u /\ t.sfx = u.sfx THEN {Config} ELSE {}
           /\ recent_fwd' = [o \in Originals |->
                IF \E t \in W : db[t].orig = o
                  THEN [tok |-> CHOOSE t \in W : db[t].orig = o, ts |-> now] ELSE None]
           /\ recent_rev' = [t \in Tokens |->
                IF t \in W THEN [orig |-> db[t].orig, ts |-> now] ELSE None]
           /\ recent_suffix' = [x \in Suffixes |->
                IF \E t \in W : t.sfx = x THEN CHOOSE t \in W : t.sfx = x ELSE None]
           /\ seeding' = [todo |-> {w \in Words : cfg[w] # None}, used |-> {t.sfx : t \in W}]
    BY DEF Restart
  <1>2. \A W \in WarmChoices(R) : W \in SUBSET {t \in Tokens : db[t] # None}
    BY DEF WarmChoices, LoadChoices, Unexpired
  <1>3. QED
    BY <1>1, <1>2

LEMMA RestartType ==
  ASSUME TypeOK, Restart
  PROVE  TypeOK'
  <1> USE ConstantsAssumption
  <1>1. PICK W \in SUBSET {t \in Tokens : db[t] # None} :
           /\ hung' \subseteq {Config}
           /\ recent_fwd' = [o \in Originals |->
                IF \E t \in W : db[t].orig = o
                  THEN [tok |-> CHOOSE t \in W : db[t].orig = o, ts |-> now] ELSE None]
           /\ recent_rev' = [t \in Tokens |->
                IF t \in W THEN [orig |-> db[t].orig, ts |-> now] ELSE None]
           /\ recent_suffix' = [x \in Suffixes |->
                IF \E t \in W : t.sfx = x THEN CHOOSE t \in W : t.sfx = x ELSE None]
           /\ seeding' = [todo |-> {w \in Words : cfg[w] # None}, used |-> {t.sfx : t \in W}]
    BY RestartFacts
  <1>2. recent_fwd' \in [Originals -> Opt(Fwd)]
    <2>1. ASSUME NEW o \in Originals, \E t \in W : db[t].orig = o
          PROVE  (CHOOSE t \in W : db[t].orig = o) \in Tokens
      BY <2>1
    <2>2. QED
      BY <1>1, <2>1 DEF TypeOK, TypeRest
  <1>3. recent_rev' \in [Tokens -> Opt(Rev)]
    BY <1>1 DEF TypeOK, TypeRest, TypeStore
  <1>4. recent_suffix' \in [Suffixes -> Opt(Tokens)]
    <2>1. ASSUME NEW x \in Suffixes, \E t \in W : t.sfx = x
          PROVE  (CHOOSE t \in W : t.sfx = x) \in Tokens
      BY <2>1
    <2>2. QED
      BY <1>1, <2>1
  <1>5. TypeConfig'
    <2>1. {t.sfx : t \in W} \subseteq Suffixes
      BY TokenFields
    <2>2. seeding' \in Seed
      BY <1>1, <2>1
    <2>3. cfg' = cfg /\ serving' = FALSE
      BY DEF Restart
    <2>4. \A w \in seeding'.todo : cfg[w] # None
      BY <1>1
    <2>5. QED
      BY <2>2, <2>3, <2>4 DEF TypeOK, TypeConfig
  <1>6. spent' \in [Bounded -> Nat]
    BY DEF Restart, TypeOK, TypeRest, Bounded
  <1>7. TypeCustoms' /\ TypeSessions' /\ TypeThreads'
    BY <1>1 DEF Restart, TypeCustoms, TypeSessions, TypeThreads
  <1>8. QED
    BY <1>2, <1>3, <1>4, <1>5, <1>6, <1>7 DEF Restart, TypeOK, TypeCaches, TypeStore, TypeRest

\* Type correctness: whatever requests, evictions, configuration changes and
\* restarts do, every table keeps its shape.
THEOREM TypeCorrect == Spec => []TypeOK
  <1>1. Init => TypeOK
    BY ConstantsAssumption DEF Init, TypeOK, TypeCaches, TypeCustoms, TypeSessions, TypeThreads,
       TypeStore, TypeConfig, TypeRest
  <1>2. TypeOK /\ [Next]_vars => TypeOK'
    <2> SUFFICES ASSUME TypeOK, [Next]_vars PROVE TypeOK'
      OBVIOUS
    <2>1. CASE Tick
      BY <2>1 DEF Tick, TypeOK, TypeCaches, TypeCustoms, TypeSessions, TypeThreads,
         TypeStore, TypeConfig, TypeRest, caches, customs, sessions, store, config
    <2>2. CASE UNCHANGED vars
      BY <2>2 DEF vars, TypeOK, TypeCaches, TypeCustoms, TypeSessions, TypeThreads,
         TypeStore, TypeConfig, TypeRest, caches, customs, sessions, store, config
    <2>3. QED
      BY <2>1, <2>2, SessionType, ConfigType, StoreType, RestartType DEF Next
  <1>3. QED
    BY <1>1, <1>2, PTL DEF Spec

-----------------------------------------------------------------------------
(* Agreement with mint.                                                     *)

MintGrows == \A t \in Tokens : mint[t] # None => mint'[t] = mint[t]

\* A table that a step leaves alone still agrees when mint has only grown.
LEMMA AgreeStable ==
  ASSUME TypeOK, Agreement, MintGrows
  PROVE  /\ UNCHANGED caches => AgreeCaches'
         /\ UNCHANGED customs => AgreeCustoms'
         /\ UNCHANGED sessions => AgreeSessions'
         /\ UNCHANGED call => AgreeThreads'
         /\ UNCHANGED store => AgreeStore'
  <1> USE ConstantsAssumption
  <1>1. ASSUME UNCHANGED caches PROVE AgreeCaches'
    BY <1>1, SMTT(30) DEF TypeOK, TypeCaches, Agreement, AgreeCaches, MintGrows, caches
  <1>2. ASSUME UNCHANGED customs PROVE AgreeCustoms'
    BY <1>2, SMTT(30) DEF TypeOK, TypeCustoms, Agreement, AgreeCustoms, MintGrows, customs
  <1>3. ASSUME UNCHANGED sessions PROVE AgreeSessions'
    BY <1>3 DEF TypeOK, TypeSessions, Agreement, AgreeSessions, MintGrows, sessions
  <1>4. ASSUME UNCHANGED call PROVE AgreeThreads'
    BY <1>4 DEF TypeOK, TypeThreads, Agreement, AgreeThreads, MintGrows
  <1>5. ASSUME UNCHANGED store PROVE AgreeStore'
    <2>1. \A t \in Tokens : db'[t] # None => mint'[t] = db'[t].orig
      BY <1>5 DEF TypeOK, TypeStore, Agreement, AgreeStore, MintGrows, store
    <2>2. ASSUME NEW i \in 1..Len(queue), NEW p \in queue[i] PROVE mint'[p[1]] = p[2]
      <3>1. queue[i] \in SUBSET (Tokens \X Originals)
        BY DEF TypeOK, TypeStore
      <3>2. p[1] \in Tokens /\ p[2] \in Originals
        BY <3>1
      <3>3. mint[p[1]] = p[2]
        BY DEF Agreement, AgreeStore
      <3>4. QED
        BY <3>2, <3>3 DEF MintGrows
    <2>3. QED
      BY <1>5, <2>1, <2>2 DEF AgreeStore, store
  <1>6. QED
    BY <1>1, <1>2, <1>3, <1>4, <1>5

\* remember records a pair mint agrees with.
LEMMA RememberAgrees ==
  ASSUME NEW s \in Sids, NEW o \in Originals, NEW t \in Tokens, TypeOK, Agreement,
         mint[t] = o, mint' = mint, Remember(s, o, t)
  PROVE  AgreeSessions'
  <1>1. \A u \in Tokens : rev'[s][u] = IF u = t THEN o ELSE rev[s][u]
    BY DEF Remember, TypeOK, TypeSessions
  <1>2. \A p \in Originals : fwd'[s][p] = IF p = o THEN t ELSE fwd[s][p]
    BY DEF Remember, TypeOK, TypeSessions
  <1>3. \A r \in Sids \ {s} : rev'[r] = rev[r] /\ fwd'[r] = fwd[r]
    BY DEF Remember, TypeOK, TypeSessions
  <1>4. \A u \in Tokens : rev[s][u] # None => mint[u] = rev[s][u]
    BY DEF Agreement, AgreeSessions
  <1>5. ASSUME NEW p \in Originals, fwd'[s][p] # None PROVE rev'[s][fwd'[s][p]] = p
    <2>1. CASE p = o
      BY <2>1, <1>1, <1>2
    <2>2. CASE p # o
      <3>1. fwd'[s][p] = fwd[s][p] /\ fwd[s][p] \in Tokens /\ rev[s][fwd[s][p]] = p
        BY <1>2, <1>5, <2>2 DEF Agreement, AgreeSessions, TypeOK, TypeSessions
      <3>2. mint[fwd[s][p]] = p
        BY <1>4, <3>1, ConstantsAssumption
      <3>3. fwd[s][p] # t
        BY <2>2, <3>2
      <3>4. QED
        BY <1>1, <3>1, <3>3
    <2>3. QED
      BY <2>1, <2>2
  <1>6. QED
    BY <1>1, <1>3, <1>4, <1>5 DEF Agreement, AgreeSessions

LEMMA AddSuffixAgrees ==
  ASSUME NEW index \in [Suffixes -> Opt(Tokens)], NEW t \in Tokens, NEW th,
         mint[t] # None, mint' = mint, AddSuffix(index, t, th),
         \A x \in Suffixes : index[x] # None => index[x].sfx = x /\ mint[index[x]] # None
  PROVE  \A x \in Suffixes : recent_suffix'[x] # None =>
            recent_suffix'[x].sfx = x /\ mint'[recent_suffix'[x]] # None
  BY TokenFields DEF AddSuffix, IndexAdd

LEMMA RehydrateAgrees ==
  ASSUME NEW o \in Originals, NEW t \in Tokens, NEW th, TypeOK, Agreement,
         mint[t] = o, mint' = mint, Rehydrate(t, o, th)
  PROVE  AgreeCaches'
  <1>1. /\ \A p \in Originals : recent_fwd'[p] # None => mint'[recent_fwd'[p].tok] = p
        /\ \A u \in Tokens : recent_rev'[u] # None => mint'[u] = recent_rev'[u].orig
    BY DEF Rehydrate, TypeOK, TypeCaches, Agreement, AgreeCaches
  <1>2. \A x \in Suffixes : recent_suffix'[x] # None =>
            recent_suffix'[x].sfx = x /\ mint'[recent_suffix'[x]] # None
    BY AddSuffixAgrees, ConstantsAssumption
       DEF Rehydrate, TypeOK, TypeCaches, Agreement, AgreeCaches
  <1>3. QED
    BY <1>1, <1>2 DEF AgreeCaches

LEMMA TouchAgrees ==
  ASSUME NEW o \in Originals, NEW t \in Tokens, TypeOK, Agreement, mint' = mint, TouchRecent(t, o)
  PROVE  /\ \A p \in Originals : recent_fwd'[p] # None => mint'[recent_fwd'[p].tok] = p
         /\ \A u \in Tokens : recent_rev'[u] # None => mint'[u] = recent_rev'[u].orig
  BY DEF TouchRecent, TypeOK, TypeCaches, Agreement, AgreeCaches

LEMMA SameMint ==
  ASSUME Agreement, mint' = mint
  PROVE  MintGrows /\ MintShape'
  BY DEF MintGrows, Agreement, MintShape

\* A first binding does not disturb earlier ones.
LEMMA FirstBindingGrows ==
  ASSUME TypeOK, NEW t \in Tokens, NEW o \in Originals, mint' = FirstBinding(t, o)
  PROVE  MintGrows
  BY DEF MintGrows, FirstBinding, TypeOK, TypeRest

\* One step of a request, under the assumption that random draws are fresh.
LEMMA SessionAgrees ==
  ASSUME FreshDraws, NEW s \in Sids, TypeOK, Agreement, SessionStep(s)
  PROVE  Agreement'
  <1> USE ConstantsAssumption
  <1>1. CASE NewSession(s)
    <2>1. /\ UNCHANGED <<caches, customs, call, store, mint>>
          /\ UNCHANGED <<fwd, rev>>
      BY <1>1 DEF NewSession
    <2>2. AgreeSessions'
      BY <2>1 DEF Agreement, AgreeSessions
    <2>3. QED
      BY <2>1, <2>2, SameMint, AgreeStable DEF Agreement
  <1>2. CASE EndSession(s)
    <2>1. UNCHANGED <<caches, customs, call, store, mint>>
      BY <1>2 DEF EndSession
    <2>2. AgreeSessions'
      BY <1>2 DEF EndSession, Agreement, AgreeSessions, TypeOK, TypeSessions
    <2>3. QED
      BY <2>1, <2>2, SameMint, AgreeStable DEF Agreement
  <1>3. ASSUME NEW o \in Originals, RecallCustom(s, o) PROVE Agreement'
    <2>1. /\ custom_fwd[o] \in Tokens
          /\ mint[custom_fwd[o]] = o
          /\ TouchRecent(custom_fwd[o], o)
          /\ AddSuffix(recent_suffix, custom_fwd[o], s)
          /\ UNCHANGED sessions \/ Remember(s, o, custom_fwd[o])
          /\ UNCHANGED <<customs, call, store, mint>>
      BY <1>3 DEF RecallCustom, CustomHit, RememberUnless, TypeOK, TypeCustoms, Agreement,
         AgreeCustoms
    <2>2. AgreeCaches'
      BY <2>1, TouchAgrees, AddSuffixAgrees DEF TypeOK, TypeCaches, Agreement, AgreeCaches
    <2>3. AgreeSessions'
      BY <2>1, SameMint, AgreeStable, RememberAgrees
    <2>4. QED
      BY <2>1, <2>2, <2>3, SameMint, AgreeStable DEF Agreement
  <1>4. ASSUME NEW o \in Originals, RecallRecent(s, o) PROVE Agreement'
    <2>1. /\ recent_fwd[o].tok \in Tokens
          /\ mint[recent_fwd[o].tok] = o
          /\ \/ TouchRecent(recent_fwd[o].tok, o)
             \/ UNCHANGED <<recent_fwd, recent_rev>>
          /\ AddSuffix(recent_suffix, recent_fwd[o].tok, s)
          /\ UNCHANGED sessions \/ Remember(s, o, recent_fwd[o].tok)
          /\ UNCHANGED <<customs, call, store, mint>>
      BY <1>4 DEF RecallRecent, RecentHit, RememberUnless, TypeOK, TypeCaches, Agreement,
         AgreeCaches
    <2>2. AgreeCaches'
      BY <2>1, TouchAgrees, AddSuffixAgrees DEF TypeOK, TypeCaches, Agreement, AgreeCaches
    <2>3. AgreeSessions'
      BY <2>1, SameMint, AgreeStable, RememberAgrees
    <2>4. QED
      BY <2>1, <2>2, <2>3, SameMint, AgreeStable DEF Agreement
  <1>5. ASSUME NEW o \in Originals, RecallDb(s, o) PROVE Agreement'
    <2>1. PICK t \in Tokens : /\ Rehydrate(t, o, s)
                              /\ UNCHANGED sessions \/ Remember(s, o, t)
                              /\ db[t] # None /\ db[t].orig = o
      BY <1>5 DEF RecallDb, DbHits, Unexpired, RememberUnless
    <2>2. UNCHANGED <<customs, call, store, mint>>
      BY <1>5 DEF RecallDb
    <2>3. mint[t] = o
      BY <2>1 DEF Agreement, AgreeStore
    <2>4. AgreeCaches'
      BY <2>1, <2>2, <2>3, RehydrateAgrees
    <2>5. AgreeSessions'
      BY <2>1, <2>2, <2>3, SameMint, AgreeStable, RememberAgrees
    <2>6. QED
      BY <2>2, <2>4, <2>5, SameMint, AgreeStable DEF Agreement
  <1>6. ASSUME NEW o \in Originals, RecallMiss(s, o) PROVE Agreement'
    <2>1. PICK t \in NewTokens(RuleLabel[o]) :
             /\ NeverMinted(t.sfx)
             /\ call' = [call EXCEPT ![s] = [orig |-> o, tok |-> t]]
             /\ mint' = FirstBinding(t, o)
      BY <1>6 DEF RecallMiss
    <2>2. t \in Tokens /\ t.label = SafeLabel[RuleLabel[o]]
      BY TokenFields DEF NewTokens
    <2>3. mint[t] = None /\ t.sfx \notin DetRange
      BY <2>1, <2>2, TokenFields DEF NeverMinted
    <2>4. mint' = [mint EXCEPT ![t] = o]
      BY <2>1, <2>3 DEF FirstBinding
    <2>5. MintGrows
      BY <2>1, <2>2, FirstBindingGrows
    <2>6. MintShape'
      BY <2>2, <2>3, <2>4, TokenFields DEF Agreement, MintShape, DetRange, TypeOK, TypeRest
    <2>7. AgreeThreads'
      BY <2>1, <2>2, <2>4, <2>5 DEF Agreement, AgreeThreads, MintGrows, TypeOK, TypeThreads, TypeRest
    <2>8. QED
      BY <1>6, <2>5, <2>6, <2>7, AgreeStable DEF RecallMiss, Agreement
  <1>7. CASE InstallToken(s)
    <2> DEFINE o  == call[s].orig
               t  == call[s].tok
               f1 == [recent_fwd EXCEPT ![o] = [tok |-> t, ts |-> now]]
               r1 == [DropRev(recent_rev, Replaced(o, t)) EXCEPT ![t] = [orig |-> o, ts |-> now]]
               x1 == IndexDel(recent_suffix, Replaced(o, t))
    <2>1. o \in Originals /\ t \in Tokens /\ mint[t] = o
      BY <1>7 DEF InstallToken, TypeOK, TypeThreads, Agreement, AgreeThreads
    <2>2. f1 \in [Originals -> Opt(Fwd)] /\ r1 \in [Tokens -> Opt(Rev)]
      BY <2>1 DEF DropRev, TypeOK, TypeCaches, TypeRest
    <2>3. x1 \in [Suffixes -> Opt(Tokens)]
      BY IndexDelType DEF TypeOK, TypeCaches
    <2>4. UNCHANGED <<customs, store, mint>>
      BY <1>7 DEF InstallToken
    <2>5. \A p \in Originals : f1[p] # None => mint[f1[p].tok] = p
      BY <2>1 DEF TypeOK, TypeCaches, Agreement, AgreeCaches
    <2>6. \A u \in Tokens : r1[u] # None => mint[u] = r1[u].orig
      BY <2>1 DEF DropRev, TypeOK, TypeCaches, Agreement, AgreeCaches
    <2>7. \A x \in Suffixes : x1[x] # None => x1[x].sfx = x /\ mint[x1[x]] # None
      BY DEF IndexDel, TypeOK, TypeCaches, Agreement, AgreeCaches
    <2> HIDE DEF o, t, f1, r1, x1
    <2>8. CASE /\ recent_fwd' = f1
               /\ recent_rev' = r1
               /\ AddSuffix(x1, t, s)
               /\ UNCHANGED <<sessions, call>>
      <3>1. AgreeCaches'
        BY <2>1, <2>3, <2>4, <2>5, <2>6, <2>7, <2>8, AddSuffixAgrees DEF AgreeCaches
      <3>2. QED
        BY <2>4, <2>8, <3>1, SameMint, AgreeStable DEF Agreement
    <2>9. ASSUME NEW K,
                 /\ recent_fwd' = DropFwd(f1, K)
                 /\ recent_rev' = DropRev(r1, TokensOf(f1, K))
                 /\ recent_suffix' = IndexDel(IndexAdd(x1, t), TokensOf(f1, K)),
                 /\ Remember(s, o, t)
                 /\ call' = [call EXCEPT ![s] = None]
          PROVE  Agreement'
      <3>1. \A x \in Suffixes : recent_suffix'[x] # None =>
               recent_suffix'[x].sfx = x /\ mint[recent_suffix'[x]] # None
        BY <2>1, <2>3, <2>7, <2>9, TokenFields DEF IndexAdd, IndexDel
      <3>2. AgreeCaches'
        BY <2>2, <2>4, <2>5, <2>6, <2>9, <3>1 DEF AgreeCaches, DropFwd, DropRev
      <3>3. AgreeSessions'
        BY <2>1, <2>4, <2>9, RememberAgrees
      <3>4. AgreeThreads'
        BY <2>4, <2>9 DEF Agreement, AgreeThreads, TypeOK, TypeThreads
      <3>5. QED
        BY <2>4, <3>2, <3>3, <3>4, SameMint, AgreeStable DEF Agreement
    <2>10. QED
      BY <1>7, <2>8, <2>9 DEF InstallToken, o, t, f1, r1, x1
  <1>8. ASSUME NEW t \in Tokens, SeedKnown(s, t) PROVE Agreement'
    <2>1. UNCHANGED <<caches, customs, call, store, mint>> /\ fwd' = fwd
      BY <1>8 DEF SeedKnown
    <2>2. mint[t] = recent_rev[t].orig /\ rev[s][t] = None
      BY <1>8 DEF SeedKnown, Agreement, AgreeCaches
    <2>3. AgreeSessions'
      BY <1>8, <2>1, <2>2 DEF SeedKnown, Agreement, AgreeSessions, TypeOK, TypeSessions
    <2>4. QED
      BY <2>1, <2>3, SameMint, AgreeStable DEF Agreement
  <1>9. ASSUME NEW t \in Tokens, RestoreRecent(s, t) PROVE Agreement'
    <2>1. /\ recent_rev[t].orig \in Originals
          /\ TouchRecent(t, recent_rev[t].orig)
          /\ UNCHANGED <<recent_suffix, customs, sessions, call, store, mint>>
      BY <1>9 DEF RestoreRecent, RecentUsable, TypeOK, TypeCaches
    <2>2. AgreeCaches'
      BY <2>1, TouchAgrees DEF Agreement, AgreeCaches
    <2>3. QED
      BY <2>1, <2>2, SameMint, AgreeStable DEF Agreement
  <1>10. ASSUME NEW t \in Tokens, RestoreDb(s, t) PROVE Agreement'
    <2>1. /\ db[t].orig \in Originals
          /\ mint[t] = db[t].orig
          /\ Rehydrate(t, db[t].orig, s)
          /\ UNCHANGED <<customs, sessions, call, store, mint>>
      BY <1>10 DEF RestoreDb, Unexpired, TypeOK, TypeStore, Agreement, AgreeStore
    <2>2. AgreeCaches'
      BY <2>1, RehydrateAgrees
    <2>3. QED
      BY <2>1, <2>2, SameMint, AgreeStable DEF Agreement
  <1>11. CASE Forward(s)
    <2> DEFINE batch == {<<fwd[s][o], o>> : o \in {p \in pending[s] : fwd[s][p] # None}}
    <2>1. /\ UNCHANGED <<caches, customs, call, mint>> /\ fwd' = fwd /\ rev' = rev /\ db' = db
          /\ queue' = queue \/ queue' = Append(queue, batch)
      BY <1>11 DEF Forward
    <2>2. AgreeSessions'
      BY <2>1 DEF Agreement, AgreeSessions
    <2>3. batch \in SUBSET (Tokens \X Originals)
      BY DEF TypeOK, TypeSessions
    <2>4. ASSUME NEW p \in batch PROVE mint[p[1]] = p[2]
      <3>1. PICK o \in Originals : p = <<fwd[s][o], o>> /\ fwd[s][o] # None
        BY DEF TypeOK, TypeSessions
      <3>2. fwd[s][o] \in Tokens /\ rev[s][fwd[s][o]] = o
        BY <3>1 DEF TypeOK, TypeSessions, Agreement, AgreeSessions
      <3>3. mint[fwd[s][o]] = o
        BY <3>2 DEF Agreement, AgreeSessions
      <3>4. QED
        BY <3>1, <3>3
    <2> HIDE DEF batch
    <2>5. ASSUME NEW i \in 1..Len(queue'), NEW p \in queue'[i] PROVE mint[p[1]] = p[2]
      <3>1. queue'[i] = batch \/ (i \in 1..Len(queue) /\ queue'[i] = queue[i])
        <4>1. CASE queue' = queue
          BY <4>1
        <4>2. CASE queue' = Append(queue, batch)
          BY <4>2, <2>3 DEF TypeOK, TypeStore
        <4>3. QED
          BY <2>1, <4>1, <4>2
      <3>2. CASE queue'[i] = batch
        BY <2>4, <2>5, <3>2
      <3>3. CASE i \in 1..Len(queue) /\ queue'[i] = queue[i]
        BY <2>5, <3>3 DEF Agreement, AgreeStore
      <3>4. QED
        BY <3>1, <3>2, <3>3
    <2>6. AgreeStore'
      BY <2>1, <2>5 DEF Agreement, AgreeStore
    <2>7. QED
      BY <2>1, <2>2, <2>6, SameMint, AgreeStable DEF Agreement
  <1>12. QED
    BY <1>1, <1>2, <1>3, <1>4, <1>5, <1>6, <1>7, <1>8, <1>9, <1>10, <1>11 DEF SessionStep

\* A registration of configured words.  The suffixes of a word are its own, so
\* a derived token was unbound or was bound to that very word.
LEMMA ConfigAgrees ==
  ASSUME TypeOK, Agreement, ConfigStep
  PROVE  Agreement'
  <1> USE ConstantsAssumption
  <1>1. ASSUME NEW c \in [Words -> Opt(Labels)], SeedBegin(c) PROVE Agreement'
    <2>1. UNCHANGED <<recent_fwd, recent_rev, sessions, call, store, mint>>
      BY <1>1 DEF SeedBegin
    <2>2. AgreeCustoms'
      BY <1>1, <2>1 DEF SeedBegin, TypeOK, TypeCustoms, Agreement, AgreeCustoms
    <2>3. \E T : recent_suffix' = IndexDel(recent_suffix, T)
      BY <1>1 DEF SeedBegin
    <2>4. AgreeCaches'
      BY <2>1, <2>3 DEF IndexDel, TypeOK, TypeCaches, Agreement, AgreeCaches
    <2>5. QED
      BY <2>1, <2>2, <2>4, SameMint, AgreeStable DEF Agreement
  <1>2. ASSUME NEW w \in Words, SeedKeep(w) PROVE Agreement'
    <2>1. UNCHANGED <<caches, sessions, call, store, mint>> /\ custom_fwd' = custom_fwd
      BY <1>2 DEF SeedKeep
    <2>2. /\ custom_fwd[w] \in Tokens /\ custom_rev[custom_fwd[w]] # None
          /\ custom_rev' = [custom_rev EXCEPT ![custom_fwd[w]] =
               [orig |-> custom_rev[custom_fwd[w]].orig, label |-> cfg[w]]]
      BY <1>2 DEF SeedKeep, KeepsToken, TypeOK, TypeCustoms
    <2>3. AgreeCustoms'
      BY <2>1, <2>2 DEF TypeOK, TypeCustoms, Agreement, AgreeCustoms
    <2>4. QED
      BY <2>1, <2>3, SameMint, AgreeStable DEF Agreement
  <1>3. ASSUME NEW w \in Words, SeedDerive(w) PROVE Agreement'
    <2> DEFINE tok(c) == Token(SafeLabel[cfg[w]], DetSuffix[w][c])
               old    == {custom_fwd[w]} \ {None}
               index  == IndexDel(recent_suffix, old)
    <2>1. PICK c \in Counters :
            /\ custom_fwd' = [custom_fwd EXCEPT ![w] = tok(c)]
            /\ custom_rev' = [u \in Tokens |->
                 IF u = tok(c) THEN [orig |-> w, label |-> cfg[w]]
                 ELSE IF u \in old THEN None ELSE custom_rev[u]]
            /\ AddSuffix(index, tok(c), Config)
            /\ mint' = FirstBinding(tok(c), w)
      BY <1>3 DEF SeedDerive
    <2>2. UNCHANGED <<recent_fwd, recent_rev, sessions, call, store>>
      BY <1>3 DEF SeedDerive
    <2>3. cfg[w] \in Labels
      BY <1>3 DEF SeedDerive, TypeOK, TypeConfig
    <2>4. /\ tok(c) \in Tokens /\ tok(c).sfx = DetSuffix[w][c]
          /\ SafeLabel[tok(c).label] = tok(c).label
      BY <2>3, TokenFields
    <2>5. mint[tok(c)] = None \/ mint[tok(c)] = w
      BY <2>4 DEF Agreement, MintShape
    <2>6. index \in [Suffixes -> Opt(Tokens)]
      BY IndexDelType DEF TypeOK, TypeCaches
    <2>7. \A x \in Suffixes : index[x] # None => index[x].sfx = x /\ mint[index[x]] # None
      BY DEF IndexDel, TypeOK, TypeCaches, Agreement, AgreeCaches
    <2> HIDE DEF tok, old, index
    <2>8. MintGrows
      BY <2>1, <2>4, FirstBindingGrows
    <2>9. /\ mint'[tok(c)] = w
          /\ \A u \in Tokens : u # tok(c) => mint'[u] = mint[u]
      BY <2>1, <2>4, <2>5 DEF FirstBinding, TypeOK, TypeRest
    <2>10. MintShape'
      <3> SUFFICES ASSUME NEW u \in Tokens, mint'[u] # None
                   PROVE  /\ SafeLabel[u.label] = u.label
                          /\ \A v \in Words : \A b \in Counters :
                                u.sfx = DetSuffix[v][b] => mint'[u] = v
        BY DEF MintShape
      <3>1. CASE u = tok(c)
        BY <2>4, <2>9, <3>1, DetAssumption
      <3>2. CASE u # tok(c)
        BY <2>9, <3>2 DEF Agreement, MintShape
      <3>3. QED
        BY <3>1, <3>2
    <2>11. AgreeCustoms'
      <3>1. \A v \in Words : custom_fwd'[v] # None => mint'[custom_fwd'[v]] = v
        BY <2>1, <2>8, <2>9 DEF TypeOK, TypeCustoms, Agreement, AgreeCustoms, MintGrows
      <3>2. \A u \in Tokens : custom_rev'[u] # None => mint'[u] = custom_rev'[u].orig
        BY <2>1, <2>9 DEF TypeOK, TypeCustoms, Agreement, AgreeCustoms
      <3>3. QED
        BY <3>1, <3>2 DEF AgreeCustoms
    <2>12. \A x \in Suffixes : recent_suffix'[x] # None =>
              recent_suffix'[x].sfx = x /\ mint'[recent_suffix'[x]] # None
      <3>1. \A x \in Suffixes : recent_suffix'[x] # None =>
               \/ recent_suffix'[x] = tok(c) /\ x = tok(c).sfx
               \/ recent_suffix'[x] = index[x]
        BY <2>1, <2>4, <2>6, TokenFields DEF AddSuffix, IndexAdd
      <3>2. QED
        BY <2>6, <2>7, <2>8, <2>9, <3>1 DEF MintGrows
    <2>13. AgreeCaches'
      BY <2>2, <2>8, <2>12 DEF TypeOK, TypeCaches, Agreement, AgreeCaches, MintGrows
    <2>14. QED
      BY <2>2, <2>8, <2>10, <2>11, <2>13, AgreeStable DEF Agreement
  <1>4. CASE SeedDone
    <2>1. UNCHANGED <<caches, customs, sessions, call, store, mint>>
      BY <1>4 DEF SeedDone
    <2>2. QED
      BY <2>1, SameMint, AgreeStable DEF Agreement
  <1>5. QED
    BY <1>1, <1>2, <1>3, <1>4 DEF ConfigStep

\* The database writer stores pairs that were queued, and the maintenance
\* thread only removes rows.
LEMMA StoreAgrees ==
  ASSUME TypeOK, Agreement, StoreStep
  PROVE  Agreement'
  <1> USE ConstantsAssumption
  <1>1. UNCHANGED <<caches, customs, sessions, call, mint>>
    BY DEF StoreStep, WriteMappings, LoseMappings, PruneMappings
  <1>2. ASSUME queue # <<>>, NEW i \in 1..Len(Tail(queue)), NEW p \in Tail(queue)[i]
        PROVE  mint[p[1]] = p[2]
    <2>1. i + 1 \in 1..Len(queue) /\ Tail(queue)[i] = queue[i + 1]
      BY <1>2 DEF TypeOK, TypeStore
    <2>2. QED
      BY <1>2, <2>1 DEF Agreement, AgreeStore
  <1>3. CASE WriteMappings
    <2>1. queue # <<>> /\ queue' = Tail(queue)
      BY <1>3 DEF WriteMappings
    <2> DEFINE origs(t) == {o \in Originals : <<t, o>> \in Head(queue)}
               P == {t \in Tokens : origs(t) # {}}
    <2>2. PICK pick \in [P -> Originals] :
             /\ \A t \in DOMAIN pick : pick[t] \in origs(t)
             /\ db' = [t \in Tokens |->
                  IF t \notin DOMAIN pick THEN db[t]
                  ELSE [orig    |-> pick[t],
                        created |-> IF db[t] = None THEN now ELSE db[t].created,
                        exp     |-> now + MappingTtl]]
      BY <1>3 DEF WriteMappings
    <2>3. 1 \in 1..Len(queue) /\ Head(queue) = queue[1]
      BY <2>1 DEF TypeOK, TypeStore
    <2>4. \A t \in DOMAIN pick : mint[t] = pick[t]
      <3> SUFFICES ASSUME NEW t \in DOMAIN pick PROVE mint[t] = pick[t]
        OBVIOUS
      <3>1. <<t, pick[t]>> \in queue[1]
        BY <2>2, <2>3
      <3>2. QED
        BY <2>3, <3>1 DEF Agreement, AgreeStore
    <2> HIDE DEF P
    <2>5. \A t \in Tokens : db'[t] # None => mint[t] = db'[t].orig
      BY <2>2, <2>4 DEF Agreement, AgreeStore
    <2>6. AgreeStore'
      BY <1>1, <1>2, <2>1, <2>5 DEF AgreeStore
    <2>7. QED
      BY <1>1, <2>6, SameMint, AgreeStable DEF Agreement
  <1>4. CASE LoseMappings
    <2>1. queue # <<>> /\ queue' = Tail(queue) /\ db' = db
      BY <1>4 DEF LoseMappings
    <2>2. AgreeStore'
      BY <1>1, <1>2, <2>1 DEF Agreement, AgreeStore
    <2>3. QED
      BY <1>1, <2>2, SameMint, AgreeStable DEF Agreement
  <1>5. CASE PruneMappings
    <2>1. queue' = queue /\ db' = [t \in Tokens |-> IF Unexpired(t) THEN db[t] ELSE None]
      BY <1>5 DEF PruneMappings
    <2>2. AgreeStore'
      BY <1>1, <2>1 DEF Agreement, AgreeStore
    <2>3. QED
      BY <1>1, <2>2, SameMint, AgreeStable DEF Agreement
  <1>6. QED
    BY <1>3, <1>4, <1>5 DEF StoreStep

\* A restart rebuilds the reuse cache from rows of the database.
LEMMA RestartAgrees ==
  ASSUME TypeOK, Agreement, Restart
  PROVE  Agreement'
  <1> USE ConstantsAssumption
  <1>1. PICK W \in SUBSET {t \in Tokens : db[t] # None} :
           /\ recent_fwd' = [o \in Originals |->
                IF \E t \in W : db[t].orig = o
                  THEN [tok |-> CHOOSE t \in W : db[t].orig = o, ts |-> now] ELSE None]
           /\ recent_rev' = [t \in Tokens |->
                IF t \in W THEN [orig |-> db[t].orig, ts |-> now] ELSE None]
           /\ recent_suffix' = [x \in Suffixes |->
                IF \E t \in W : t.sfx = x THEN CHOOSE t \in W : t.sfx = x ELSE None]
    BY RestartFacts
  <1>2. db' = db /\ mint' = mint /\ queue' = <<>>
    BY DEF Restart
  <1>3. \A t \in W : t \in Tokens /\ mint[t] = db[t].orig /\ mint[t] # None
    BY DEF Agreement, AgreeStore, TypeOK, TypeStore
  <1>4. ASSUME NEW o \in Originals, recent_fwd'[o] # None PROVE mint'[recent_fwd'[o].tok] = o
    <2>1. \E t \in W : db[t].orig = o
      BY <1>1, <1>4
    <2>2. recent_fwd'[o].tok = CHOOSE t \in W : db[t].orig = o
      BY <1>1, <2>1
    <2>3. recent_fwd'[o].tok \in W /\ db[recent_fwd'[o].tok].orig = o
      BY <2>1, <2>2
    <2>4. QED
      BY <1>2, <1>3, <2>3
  <1>5. ASSUME NEW x \in Suffixes, recent_suffix'[x] # None
        PROVE  recent_suffix'[x].sfx = x /\ mint'[recent_suffix'[x]] # None
    <2>1. \E t \in W : t.sfx = x
      BY <1>1, <1>5
    <2>2. recent_suffix'[x] = CHOOSE t \in W : t.sfx = x
      BY <1>1, <2>1
    <2>3. recent_suffix'[x] \in W /\ recent_suffix'[x].sfx = x
      BY <2>1, <2>2
    <2>4. QED
      BY <1>2, <1>3, <2>3
  <1>6. AgreeCaches'
    BY <1>1, <1>2, <1>3, <1>4, <1>5 DEF AgreeCaches
  <1>7. AgreeCustoms' /\ AgreeSessions' /\ AgreeThreads'
    BY DEF Restart, AgreeCustoms, AgreeSessions, AgreeThreads
  <1>8. AgreeStore'
    BY <1>2 DEF Agreement, AgreeStore
  <1>9. QED
    BY <1>2, <1>6, <1>7, <1>8, SameMint DEF Agreement

\* Every table that can answer a lookup agrees with the first binding of the
\* placeholder, provided the random generator never repeats a suffix.
THEOREM AgreementInvariant == ASSUME FreshDraws PROVE Spec => []Agreement
  <1>1. Init => Agreement
    BY ConstantsAssumption DEF Init, Agreement, AgreeCaches, AgreeCustoms, AgreeSessions,
       AgreeThreads, AgreeStore, MintShape
  <1>2. TypeOK /\ Agreement /\ [Next]_vars => Agreement'
    <2> SUFFICES ASSUME TypeOK, Agreement, [Next]_vars PROVE Agreement'
      OBVIOUS
    <2>1. ASSUME Tick \/ UNCHANGED vars PROVE Agreement'
      <3>1. UNCHANGED <<caches, customs, sessions, call, store, mint>>
        BY <2>1 DEF Tick, vars
      <3>2. QED
        BY <3>1, SameMint, AgreeStable DEF Agreement
    <2>2. QED
      BY <2>1, SessionAgrees, ConfigAgrees, StoreAgrees, RestartAgrees DEF Next
  <1>3. QED
    BY <1>1, <1>2, TypeCorrect, PTL DEF Spec

\* Whatever table answers, its answer is the first binding.
LEMMA LookupAgrees ==
  ASSUME TypeOK, Agreement, NEW s \in Sids, NEW t \in Tokens, LookupWithDb(t, s) # None
  PROVE  LookupWithDb(t, s) = mint[t] /\ mint[t] # None
  BY ConstantsAssumption DEF LookupWithDb, Lookup, RecentUsable, Unexpired, TypeOK, TypeCaches,
     TypeCustoms, TypeSessions, TypeStore, Agreement, AgreeCaches, AgreeCustoms, AgreeSessions,
     AgreeStore

\* Restores yield the right text or none at all, for every number of sessions,
\* values, words and restarts, and any interleaving of them.
THEOREM RestoreIsFaithful == ASSUME FreshDraws PROVE Spec => []RestoreFaithful
  <1>1. TypeOK /\ Agreement => RestoreFaithful
    <2> SUFFICES ASSUME TypeOK, Agreement, NEW s \in Sids, NEW t \in Tokens, RestoreOf(t, s) # None
                 PROVE  RestoreOf(t, s) = mint[Canonical(t)]
      BY DEF RestoreFaithful
    <2>1. CASE LookupWithDb(t, s) # None
      <3>1. RestoreOf(t, s) = mint[t] /\ mint[t] # None
        BY <2>1, LookupAgrees DEF RestoreOf
      <3>2. Canonical(t) = t
        BY <3>1, TokenFields DEF Canonical, Agreement, MintShape
      <3>3. QED
        BY <3>1, <3>2
    <2>2. CASE LookupWithDb(t, s) = None
      <3> DEFINE real == recent_suffix[t.sfx]
      <3>1. /\ real \in Tokens /\ SafeLabel[real.label] = SafeLabel[t.label]
            /\ RestoreOf(t, s) = LookupWithDb(real, s)
        BY <2>2, TokenFields DEF RestoreOf, SuffixRealToken, TypeOK, TypeCaches
      <3>2. RestoreOf(t, s) = mint[real] /\ mint[real] # None
        BY <3>1, LookupAgrees
      <3>3. real.sfx = t.sfx /\ SafeLabel[real.label] = real.label
        BY <3>1, <3>2, TokenFields, ConstantsAssumption
           DEF Agreement, AgreeCaches, MintShape
      <3>4. real = Canonical(t)
        BY <3>1, <3>3, TokenFields DEF Canonical
      <3>5. QED
        BY <3>2, <3>4
    <2>3. QED
      BY <2>1, <2>2
  <1>2. QED
    BY <1>1, TypeCorrect, AgreementInvariant, PTL

\* A session restores every placeholder of its own request, whatever evictions
\* and rebindings the shared cache goes through meanwhile.
THEOREM RoundTripHolds == ASSUME FreshDraws PROVE Spec => []SessionRoundTrip
  <1>1. TypeOK /\ Agreement => SessionRoundTrip
    BY ConstantsAssumption DEF SessionRoundTrip, RestoreOf, LookupWithDb, Lookup, TypeOK,
       TypeSessions, Agreement, AgreeSessions
  <1>2. QED
    BY <1>1, TypeCorrect, AgreementInvariant, PTL

-----------------------------------------------------------------------------
(* The suffix index points only at placeholders that are still known.       *)

\* Whatever the cache or the configured words map forward, they map back.
FwdBacked == \A o \in Originals : recent_fwd[o] # None => recent_rev[recent_fwd[o].tok] # None
CustomBacked == \A w \in Words : custom_fwd[w] # None => custom_rev[custom_fwd[w]] # None

\* IndexBacked, for any index and any two reverse tables.
Backed(index, r, c) ==
  \A x \in Suffixes : index[x] # None =>
     /\ index[x].sfx = x
     /\ r[index[x]] # None \/ c[index[x]] # None

IndexInv == FwdBacked /\ CustomBacked /\ IndexBacked

LEMMA AddBacked ==
  ASSUME NEW index \in [Suffixes -> Opt(Tokens)], NEW t \in Tokens, NEW th, NEW r, NEW c,
         AddSuffix(index, t, th), Backed(index, r, c), r[t] # None \/ c[t] # None
  PROVE  Backed(recent_suffix', r, c)
  BY TokenFields DEF AddSuffix, IndexAdd, Backed

\* Tokens may be forgotten as long as their index entries go with them.
LEMMA DelBacked ==
  ASSUME NEW index \in [Suffixes -> Opt(Tokens)], NEW T, NEW r, NEW c, NEW r2, NEW c2,
         Backed(index, r, c),
         \A t \in Tokens \ T : r[t] # None \/ c[t] # None => r2[t] # None \/ c2[t] # None
  PROVE  Backed(IndexDel(index, T), r2, c2)
  BY ConstantsAssumption DEF IndexDel, Backed

\* A refreshed entry is still there.
LEMMA TouchBacked ==
  ASSUME TypeOK, NEW o \in Originals, NEW t \in Tokens, TouchRecent(t, o)
  PROVE  /\ \A u \in Tokens : recent_rev'[u] # None <=> recent_rev[u] # None
         /\ \A p \in Originals : recent_fwd'[p] # None => recent_fwd[p] # None /\ recent_fwd'[p].tok = recent_fwd[p].tok
  <1> USE ConstantsAssumption
  <1>1. [orig |-> recent_rev[t].orig, ts |-> now] # None \/ recent_rev[t] = None
    BY EntryAssumption DEF TypeOK, TypeCaches, TypeRest
  <1>2. QED
    BY <1>1 DEF TouchRecent, TypeOK, TypeCaches

\* A step that leaves the tables of placeholders alone.
LEMMA IndexStable ==
  ASSUME IndexInv, UNCHANGED <<caches, customs>>
  PROVE  IndexInv'
  BY DEF IndexInv, FwdBacked, CustomBacked, IndexBacked, caches, customs

\* A hit in memory refreshes the entry and adds a token that is known.
LEMMA HitBacked ==
  ASSUME TypeOK, IndexInv, NEW o \in Originals, NEW t \in Tokens, NEW th,
         TouchRecent(t, o) \/ UNCHANGED <<recent_fwd, recent_rev>>,
         AddSuffix(recent_suffix, t, th) \/ UNCHANGED recent_suffix,
         recent_rev[t] # None \/ custom_rev[t] # None, UNCHANGED customs
  PROVE  IndexInv'
  <1> USE ConstantsAssumption
  <1>1. /\ \A u \in Tokens : recent_rev'[u] # None <=> recent_rev[u] # None
        /\ \A p \in Originals : recent_fwd'[p] # None =>
             recent_fwd[p] # None /\ recent_fwd'[p].tok = recent_fwd[p].tok
    BY TouchBacked
  <1>2. \A p \in Originals : recent_fwd[p] # None => recent_fwd[p].tok \in Tokens
    BY DEF TypeOK, TypeCaches
  <1>3. FwdBacked'
    BY <1>1, <1>2 DEF IndexInv, FwdBacked
  <1>4. recent_suffix \in [Suffixes -> Opt(Tokens)]
    BY DEF TypeOK, TypeCaches
  <1>5. Backed(recent_suffix, recent_rev', custom_rev)
    BY <1>1, <1>4 DEF IndexInv, IndexBacked, Backed
  <1>6. Backed(recent_suffix', recent_rev', custom_rev)
    BY <1>1, <1>4, <1>5, AddBacked
  <1>7. QED
    BY <1>3, <1>6 DEF IndexInv, IndexBacked, Backed, CustomBacked, customs

\* A row of the database goes back into the cache in both directions.
LEMMA RehydrateBacked ==
  ASSUME TypeOK, IndexInv, NEW o \in Originals, NEW t \in Tokens, NEW th,
         Rehydrate(t, o, th), UNCHANGED customs
  PROVE  IndexInv'
  <1> USE ConstantsAssumption
  <1>1. recent_rev'[t] # None /\ \A u \in Tokens : recent_rev[u] # None => recent_rev'[u] # None
    <2>1. [orig |-> o, ts |-> now] # None
      BY EntryAssumption DEF TypeOK, TypeRest
    <2>2. QED
      BY <2>1 DEF Rehydrate, TypeOK, TypeCaches
  <1>2. \A p \in Originals : recent_fwd'[p] # None =>
          (p = o /\ recent_fwd'[p].tok = t) \/ (recent_fwd'[p] = recent_fwd[p] /\ recent_fwd[p].tok \in Tokens)
    BY DEF Rehydrate, TypeOK, TypeCaches
  <1>3. FwdBacked'
    BY <1>1, <1>2 DEF IndexInv, FwdBacked
  <1>4. recent_suffix \in [Suffixes -> Opt(Tokens)]
    BY DEF TypeOK, TypeCaches
  <1>5. Backed(recent_suffix, recent_rev', custom_rev)
    BY <1>1, <1>4 DEF IndexInv, IndexBacked, Backed
  <1>6. Backed(recent_suffix', recent_rev', custom_rev)
    BY <1>1, <1>4, <1>5, AddBacked DEF Rehydrate
  <1>7. QED
    BY <1>3, <1>6 DEF IndexInv, IndexBacked, Backed, CustomBacked, customs

\* The originals a prune removes have tokens in the cache.
LEMMA PruneCached ==
  ASSUME NEW f, NEW K \in MaybePruneChoices(f)
  PROVE  K \subseteq Cached(f)
  BY DEF MaybePruneChoices, PruneChoices

\* A mint replaces one token and a prune drops several; by the agreement with
\* mint no other original has one of those tokens.
LEMMA InstallBacked ==
  ASSUME TypeOK, Agreement, IndexInv, NEW s \in Sids, InstallToken(s)
  PROVE  IndexInv'
  <1> USE ConstantsAssumption
  <1> DEFINE o  == call[s].orig
             t  == call[s].tok
             D  == Replaced(o, t)
             f1 == [recent_fwd EXCEPT ![o] = [tok |-> t, ts |-> now]]
             r1 == [DropRev(recent_rev, D) EXCEPT ![t] = [orig |-> o, ts |-> now]]
             x1 == IndexDel(recent_suffix, D)
  <1>1. o \in Originals /\ t \in Tokens /\ mint[t] = o
    BY DEF InstallToken, TypeOK, TypeThreads, Agreement, AgreeThreads
  <1>2. /\ recent_fwd \in [Originals -> Opt(Fwd)] /\ recent_rev \in [Tokens -> Opt(Rev)]
        /\ recent_suffix \in [Suffixes -> Opt(Tokens)] /\ x1 \in [Suffixes -> Opt(Tokens)]
    BY IndexDelType DEF TypeOK, TypeCaches
  <1>3. UNCHANGED customs
    BY DEF InstallToken
  <1>4. [orig |-> o, ts |-> now] # None /\ [tok |-> t, ts |-> now] # None
    BY <1>1, EntryAssumption DEF TypeOK, TypeRest
  <1>5. \A u \in D : u # t /\ recent_fwd[o] # None /\ u = recent_fwd[o].tok
    BY DEF Replaced
  <1>6. \A u \in Tokens : (u = t => r1[u] # None) /\ (u # t => r1[u] = IF u \in D THEN None ELSE recent_rev[u])
    BY <1>1, <1>2, <1>4 DEF DropRev
  <1>7. \A p \in Originals : f1[p] # None => f1[p].tok \in Tokens /\ mint[f1[p].tok] = p
    BY <1>1, <1>2 DEF Agreement, AgreeCaches
  <1>8. \A p \in Originals : f1[p] = IF p = o THEN [tok |-> t, ts |-> now] ELSE recent_fwd[p]
    BY <1>1, <1>2
  <1> HIDE DEF o, t, D, f1, r1, x1
  <1>9. ASSUME NEW p \in Originals, f1[p] # None PROVE r1[f1[p].tok] # None
    <2>1. CASE p = o
      BY <1>1, <1>6, <1>8, <2>1
    <2>2. CASE p # o
      <3>1. f1[p] = recent_fwd[p] /\ recent_rev[f1[p].tok] # None /\ f1[p].tok \in Tokens
        BY <1>7, <1>8, <1>9, <2>2 DEF IndexInv, FwdBacked
      <3>2. mint[f1[p].tok] = p
        BY <1>7, <1>9
      <3>3. f1[p].tok \notin D
        <4>1. recent_fwd[o] # None => mint[recent_fwd[o].tok] = o
          BY <1>1 DEF Agreement, AgreeCaches
        <4>2. QED
          BY <1>5, <2>2, <3>2, <4>1
      <3>4. QED
        BY <1>6, <3>1, <3>3
    <2>3. QED
      BY <2>1, <2>2
  <1>10. Backed(x1, r1, custom_rev)
    <2>1. Backed(recent_suffix, recent_rev, custom_rev)
      BY DEF IndexInv, IndexBacked, Backed
    <2>2. \A u \in Tokens \ D : recent_rev[u] # None \/ custom_rev[u] # None => r1[u] # None \/ custom_rev[u] # None
      BY <1>6
    <2>3. Backed(IndexDel(recent_suffix, D), r1, custom_rev)
      BY <1>2, <2>1, <2>2, DelBacked
    <2>4. QED
      BY <2>3 DEF x1
  <1>11. CASE recent_fwd' = f1 /\ recent_rev' = r1 /\ AddSuffix(x1, t, s)
    <2>1. Backed(recent_suffix', r1, custom_rev)
      BY <1>1, <1>2, <1>6, <1>10, <1>11, AddBacked
    <2>2. QED
      BY <1>3, <1>9, <1>11, <2>1 DEF IndexInv, FwdBacked, CustomBacked, IndexBacked, Backed, customs
  <1>12. ASSUME NEW K \in MaybePruneChoices(f1),
                recent_fwd' = DropFwd(f1, K), recent_rev' = DropRev(r1, TokensOf(f1, K)),
                recent_suffix' = IndexDel(IndexAdd(x1, t), TokensOf(f1, K))
         PROVE  IndexInv'
    <2> DEFINE T == TokensOf(f1, K)
               x2 == IndexAdd(x1, t)
    <2>1. K \subseteq Originals /\ \A k \in K : f1[k] # None
      BY PruneCached DEF Cached
    <2>2. x2 \in [Suffixes -> Opt(Tokens)] /\ Backed(x2, r1, custom_rev)
      BY <1>1, <1>2, <1>6, <1>10, TokenFields DEF IndexAdd, Backed
    <2>3. \A u \in Tokens : recent_rev'[u] = IF u \in T THEN None ELSE r1[u]
      BY <1>12 DEF DropRev
    <2>4. ASSUME NEW p \in Originals, p \notin K, f1[p] # None PROVE f1[p].tok \notin T
      <3>1. ASSUME NEW k \in K, f1[k].tok = f1[p].tok PROVE FALSE
        BY <1>7, <2>1, <2>4, <3>1
      <3>2. QED
        BY <3>1 DEF TokensOf
    <2> HIDE DEF T, x2
    <2>5. FwdBacked'
      <3>1. ASSUME NEW p \in Originals, recent_fwd'[p] # None PROVE recent_rev'[recent_fwd'[p].tok] # None
        <4>1. p \notin K /\ recent_fwd'[p] = f1[p]
          BY <1>12, <3>1 DEF DropFwd
        <4>2. QED
          BY <1>7, <1>9, <2>3, <2>4, <3>1, <4>1
      <3>2. QED
        BY <3>1 DEF FwdBacked
    <2>6. Backed(recent_suffix', recent_rev', custom_rev)
      <3>1. \A u \in Tokens \ T : r1[u] # None \/ custom_rev[u] # None => recent_rev'[u] # None \/ custom_rev[u] # None
        BY <2>3
      <3>2. Backed(IndexDel(x2, T), recent_rev', custom_rev)
        BY <2>2, <3>1, DelBacked
      <3>3. QED
        BY <1>12, <3>2 DEF x2, T
    <2>7. QED
      BY <1>3, <2>5, <2>6 DEF IndexInv, CustomBacked, IndexBacked, Backed, customs
  <1>13. QED
    BY <1>11, <1>12 DEF InstallToken, o, t, D, f1, r1, x1

LEMMA SessionBacked ==
  ASSUME TypeOK, Agreement, IndexInv, NEW s \in Sids, SessionStep(s)
  PROVE  IndexInv'
  <1> USE ConstantsAssumption
  <1>1. ASSUME NEW o \in Originals, RecallCustom(s, o) PROVE IndexInv'
    <2>1. /\ custom_fwd[o] \in Tokens /\ custom_rev[custom_fwd[o]] # None
          /\ TouchRecent(custom_fwd[o], o) /\ AddSuffix(recent_suffix, custom_fwd[o], s)
          /\ UNCHANGED customs
      BY <1>1 DEF RecallCustom, CustomHit, TypeOK, TypeCustoms, IndexInv, CustomBacked
    <2>2. QED
      BY <2>1, HitBacked
  <1>2. ASSUME NEW o \in Originals, RecallRecent(s, o) PROVE IndexInv'
    <2>1. /\ recent_fwd[o].tok \in Tokens /\ recent_rev[recent_fwd[o].tok] # None
          /\ TouchRecent(recent_fwd[o].tok, o) \/ UNCHANGED <<recent_fwd, recent_rev>>
          /\ AddSuffix(recent_suffix, recent_fwd[o].tok, s)
          /\ UNCHANGED customs
      BY <1>2 DEF RecallRecent, RecentHit, TypeOK, TypeCaches, IndexInv, FwdBacked
    <2>2. QED
      BY <2>1, HitBacked
  <1>3. ASSUME NEW o \in Originals, RecallDb(s, o) PROVE IndexInv'
    <2>1. PICK t \in Tokens : Rehydrate(t, o, s)
      BY <1>3 DEF RecallDb, DbHits
    <2>2. UNCHANGED customs
      BY <1>3 DEF RecallDb
    <2>3. QED
      BY <2>1, <2>2, RehydrateBacked
  <1>4. ASSUME NEW t \in Tokens, RestoreRecent(s, t) PROVE IndexInv'
    <2>1. /\ recent_rev[t] # None /\ recent_rev[t].orig \in Originals
          /\ TouchRecent(t, recent_rev[t].orig) /\ UNCHANGED recent_suffix /\ UNCHANGED customs
      BY <1>4 DEF RestoreRecent, RecentUsable, TypeOK, TypeCaches
    <2>2. QED
      BY <2>1, HitBacked
  <1>5. ASSUME NEW t \in Tokens, RestoreDb(s, t) PROVE IndexInv'
    <2>1. db[t].orig \in Originals /\ Rehydrate(t, db[t].orig, s) /\ UNCHANGED customs
      BY <1>5 DEF RestoreDb, Unexpired, TypeOK, TypeStore
    <2>2. QED
      BY <2>1, RehydrateBacked
  <1>6. ASSUME \/ NewSession(s) \/ EndSession(s) \/ Forward(s)
               \/ \E o \in Originals : RecallMiss(s, o)
               \/ \E t \in Tokens : SeedKnown(s, t)
        PROVE  IndexInv'
    <2>1. UNCHANGED <<caches, customs>>
      BY <1>6 DEF NewSession, EndSession, Forward, RecallMiss, SeedKnown
    <2>2. QED
      BY <2>1, IndexStable
  <1>7. QED
    BY <1>1, <1>2, <1>3, <1>4, <1>5, <1>6, InstallBacked DEF SessionStep

\* Registering words: a word that goes, or that gets another token, takes the
\* index entry of its token along, and no other word has that token.
LEMMA ConfigBacked ==
  ASSUME TypeOK, Agreement, IndexInv, ConfigStep
  PROVE  IndexInv'
  <1> USE ConstantsAssumption
  <1>1. /\ custom_fwd \in [Words -> Opt(Tokens)] /\ custom_rev \in [Tokens -> Opt(Registered)]
        /\ recent_suffix \in [Suffixes -> Opt(Tokens)]
        /\ \A w \in Words : custom_fwd[w] # None => custom_fwd[w] \in Tokens /\ mint[custom_fwd[w]] = w
    BY DEF TypeOK, TypeCustoms, TypeCaches, Agreement, AgreeCustoms
  <1>2. Backed(recent_suffix, recent_rev, custom_rev)
    BY DEF IndexInv, IndexBacked, Backed
  <1>3. ASSUME NEW c \in [Words -> Opt(Labels)], SeedBegin(c) PROVE IndexInv'
    <2> DEFINE gone == {w \in Words : custom_fwd[w] # None /\ c[w] = None}
               T == {custom_fwd[w] : w \in gone}
    <2>1. /\ custom_fwd' = [w \in Words |-> IF w \in gone THEN None ELSE custom_fwd[w]]
          /\ custom_rev' = [t \in Tokens |-> IF t \in T THEN None ELSE custom_rev[t]]
          /\ recent_suffix' = IndexDel(recent_suffix, T)
          /\ UNCHANGED <<recent_fwd, recent_rev>>
      BY <1>3 DEF SeedBegin
    <2>2. ASSUME NEW w \in Words, w \notin gone, custom_fwd[w] # None PROVE custom_fwd[w] \notin T
      <3>1. ASSUME NEW v \in gone, custom_fwd[v] = custom_fwd[w] PROVE FALSE
        <4>1. v \in Words /\ custom_fwd[v] # None /\ v # w
          BY <2>2
        <4>2. mint[custom_fwd[v]] = v /\ mint[custom_fwd[w]] = w
          BY <1>1, <2>2, <4>1
        <4>3. QED
          BY <3>1, <4>1, <4>2
      <3>2. QED
        BY <3>1
    <2> HIDE DEF gone, T
    <2>3. CustomBacked'
      BY <1>1, <2>1, <2>2 DEF IndexInv, CustomBacked
    <2>4. \A t \in Tokens \ T : recent_rev[t] # None \/ custom_rev[t] # None => recent_rev[t] # None \/ custom_rev'[t] # None
      BY <2>1
    <2>5. Backed(recent_suffix', recent_rev, custom_rev')
      BY <1>1, <1>2, <2>1, <2>4, DelBacked
    <2>6. QED
      BY <2>1, <2>3, <2>5 DEF IndexInv, FwdBacked, IndexBacked, Backed
  <1>4. ASSUME NEW w \in Words, SeedKeep(w) PROVE IndexInv'
    <2> DEFINE t == custom_fwd[w]
               e == [orig |-> custom_rev[t].orig, label |-> cfg[w]]
    <2>1. /\ t # None /\ custom_rev[t] # None /\ custom_rev' = [custom_rev EXCEPT ![t] = e]
          /\ UNCHANGED <<recent_fwd, recent_rev, recent_suffix, custom_fwd>>
          /\ seeding # None /\ w \in seeding.todo
      BY <1>4 DEF SeedKeep, KeepsToken, caches
    <2>2. t \in Tokens /\ custom_rev[t].orig \in Words
      BY <1>1, <2>1
    <2>3. e # None
      <3>1. cfg[w] \in Labels
        BY <2>1 DEF TypeOK, TypeConfig
      <3>2. e \in Registered
        BY <2>2, <3>1
      <3>3. QED
        BY <3>2, EntryAssumption
    <2> HIDE DEF t, e
    <2>4. \A u \in Tokens : custom_rev'[u] # None <=> custom_rev[u] # None
      BY <1>1, <2>1, <2>2, <2>3
    <2>5. QED
      BY <1>1, <2>1, <2>4 DEF IndexInv, FwdBacked, CustomBacked, IndexBacked
  <1>5. ASSUME NEW w \in Words, SeedDerive(w) PROVE IndexInv'
    <2> DEFINE tok(c) == Token(SafeLabel[cfg[w]], DetSuffix[w][c])
               old    == {custom_fwd[w]} \ {None}
               index  == IndexDel(recent_suffix, old)
               e == [orig |-> w, label |-> cfg[w]]
    <2>1. PICK c \in Counters :
            /\ custom_fwd' = [custom_fwd EXCEPT ![w] = tok(c)]
            /\ custom_rev' = [u \in Tokens |-> IF u = tok(c) THEN e ELSE IF u \in old THEN None ELSE custom_rev[u]]
            /\ AddSuffix(index, tok(c), Config)
      BY <1>5 DEF SeedDerive
    <2>2. UNCHANGED <<recent_fwd, recent_rev>> /\ cfg[w] \in Labels
      BY <1>5 DEF SeedDerive, TypeOK, TypeConfig
    <2>3. tok(c) \in Tokens
      <3>1. SafeLabel[cfg[w]] \in Labels /\ DetSuffix[w][c] \in Suffixes
        BY <2>2
      <3>2. QED
        BY <3>1, TokenFields
    <2>4. e # None
      <3>1. e \in Registered
        BY <2>2
      <3>2. QED
        BY <3>1, EntryAssumption
    <2>5. index \in [Suffixes -> Opt(Tokens)]
      BY <1>1, IndexDelType
    <2>6. \A v \in Words \ {w} : custom_fwd[v] # None => custom_fwd[v] \notin old
      BY <1>1
    <2> HIDE DEF tok, e, old
    <2>7. CustomBacked'
      <3>1. ASSUME NEW v \in Words, custom_fwd'[v] # None PROVE custom_rev'[custom_fwd'[v]] # None
        <4>1. CASE v = w
          BY <1>1, <2>1, <2>3, <2>4, <4>1
        <4>2. CASE v # w
          <5>1. custom_fwd'[v] = custom_fwd[v] /\ custom_fwd[v] \in Tokens /\ custom_fwd[v] \notin old
            BY <1>1, <2>1, <2>6, <3>1, <4>2
          <5>2. custom_rev[custom_fwd[v]] # None
            BY <1>1, <3>1, <5>1 DEF IndexInv, CustomBacked
          <5>3. QED
            BY <2>1, <2>4, <5>1, <5>2
        <4>3. QED
          BY <4>1, <4>2
      <3>2. QED
        BY <3>1 DEF CustomBacked
    <2>8. \A u \in Tokens \ old : recent_rev[u] # None \/ custom_rev[u] # None => recent_rev[u] # None \/ custom_rev'[u] # None
      BY <2>1, <2>4
    <2>9. Backed(index, recent_rev, custom_rev')
      BY <1>1, <1>2, <2>8, DelBacked
    <2>10. custom_rev'[tok(c)] # None
      BY <2>1, <2>3, <2>4
    <2> HIDE DEF index
    <2>11. Backed(recent_suffix', recent_rev, custom_rev')
      BY <2>1, <2>3, <2>5, <2>9, <2>10, AddBacked
    <2>12. QED
      BY <2>2, <2>7, <2>11 DEF IndexInv, FwdBacked, IndexBacked, Backed
  <1>6. CASE SeedDone
    <2>1. UNCHANGED <<caches, customs>>
      BY <1>6 DEF SeedDone
    <2>2. QED
      BY <2>1, IndexStable
  <1>7. QED
    BY <1>3, <1>4, <1>5, <1>6 DEF ConfigStep

\* After a restart the three caches hold the same rows.
LEMMA RestartBacked ==
  ASSUME TypeOK, Restart
  PROVE  IndexInv'
  <1> USE ConstantsAssumption
  <1>1. PICK W \in SUBSET {t \in Tokens : db[t] # None} :
           /\ recent_fwd' = [o \in Originals |->
                IF \E t \in W : db[t].orig = o
                  THEN [tok |-> CHOOSE t \in W : db[t].orig = o, ts |-> now] ELSE None]
           /\ recent_rev' = [t \in Tokens |->
                IF t \in W THEN [orig |-> db[t].orig, ts |-> now] ELSE None]
           /\ recent_suffix' = [x \in Suffixes |->
                IF \E t \in W : t.sfx = x THEN CHOOSE t \in W : t.sfx = x ELSE None]
    BY RestartFacts
  <1>2. ASSUME NEW t \in W PROVE recent_rev'[t] # None
    <2>1. [orig |-> db[t].orig, ts |-> now] \in Rev
      BY DEF TypeOK, TypeStore, TypeRest
    <2>2. QED
      BY <1>1, <2>1, EntryAssumption
  <1>3. ASSUME NEW o \in Originals, recent_fwd'[o] # None PROVE recent_rev'[recent_fwd'[o].tok] # None
    <2>1. \E t \in W : db[t].orig = o
      BY <1>1, <1>3
    <2>2. recent_fwd'[o].tok = CHOOSE t \in W : db[t].orig = o
      BY <1>1, <2>1
    <2>3. recent_fwd'[o].tok \in W
      BY <2>1, <2>2
    <2>4. QED
      BY <1>2, <2>3
  <1>4. ASSUME NEW x \in Suffixes, recent_suffix'[x] # None
        PROVE  recent_suffix'[x].sfx = x /\ recent_rev'[recent_suffix'[x]] # None
    <2>1. \E t \in W : t.sfx = x
      BY <1>1, <1>4
    <2>2. recent_suffix'[x] = CHOOSE t \in W : t.sfx = x
      BY <1>1, <2>1
    <2>3. recent_suffix'[x] \in W /\ recent_suffix'[x].sfx = x
      BY <2>1, <2>2
    <2>4. QED
      BY <1>2, <2>3
  <1>5. CustomBacked'
    BY DEF Restart, CustomBacked
  <1>6. QED
    BY <1>3, <1>4, <1>5 DEF IndexInv, FwdBacked, IndexBacked

\* The suffix index never points at a forgotten placeholder (suffix_index_add,
\* suffix_index_del): evictions, replaced mints, words that go or change their
\* label and restarts keep it in step with the tables, in any interleaving.
THEOREM IndexIsBacked == ASSUME FreshDraws PROVE Spec => []IndexBacked
  <1>1. Init => IndexInv
    BY ConstantsAssumption DEF Init, IndexInv, FwdBacked, CustomBacked, IndexBacked
  <1>2. TypeOK /\ Agreement /\ IndexInv /\ [Next]_vars => IndexInv'
    <2> SUFFICES ASSUME TypeOK, Agreement, IndexInv, [Next]_vars PROVE IndexInv'
      OBVIOUS
    <2>1. ASSUME Tick \/ StoreStep \/ UNCHANGED vars PROVE IndexInv'
      <3>1. UNCHANGED <<caches, customs>>
        BY <2>1 DEF Tick, StoreStep, WriteMappings, LoseMappings, PruneMappings, vars
      <3>2. QED
        BY <3>1, IndexStable
    <2>2. QED
      BY <2>1, SessionBacked, ConfigBacked, RestartBacked DEF Next
  <1>3. IndexInv => IndexBacked
    BY DEF IndexInv
  <1>4. QED
    BY <1>1, <1>2, <1>3, TypeCorrect, AgreementInvariant, PTL DEF Spec

=============================================================================
