------------------------------ MODULE StoreProofs ------------------------------
(***************************************************************************)
(* Proofs about the proxy pool, the account files, their migration to rows *)
(* and the switch of the IDE (module Components, after those of            *)
(* ComponentProofs): what is stored survives the interleavings of threads, *)
(* instances, crashes and users; and about the host, its deployments and   *)
(* its tunnels.                                                            *)
(***************************************************************************)
EXTENDS Components, Sequences, FiniteSets, FiniteSetTheorems, SequenceTheorems,
        WellFoundedInduction, TLAPS

-------------------------------------------------------------------------------
(* ProxyPool: a call reads mode, list and strategy one by one while the    *)
(* configuration may be replaced between them. Until that happens it reads *)
(* one configuration; afterwards what it may read of the present one is    *)
(* among the ways configured while it is at work.                          *)

(* The addresses a call may use, and what it may be doing.                 *)
PoolClients == {PP!NoUrl} \union UNION {PP!PartsOf(config) : config \in ProxyConfigs}
PoolPlaces == {"idle", "mode", "custom", "urls", "strategy", "client", "send"}
PoolCalls == [at : PoolPlaces, second : BOOLEAN, client : PoolClients]
(* Each call has a place, a selection, a client and its ways out.          *)
CallsKept ==
    ppCall \in [ProxyCalls -> PoolCalls] /\ ppNamed \in [ProxyCalls -> SUBSET PoolClients]
(* update_config does not write the list while a selection holds it, and a *)
(* selection holds no empty list.                                          *)
ListKept ==
    /\ "urls" \in ppUpdate => ~PP!ListRead
    /\ PP!ListRead => PP!Size # 0
(* Either a call has seen one configuration only, and is where that one's  *)
(* mode leads it, or it may use what the present one has in any mode.      *)
SeenBy(c) ==
    \/ PP!PartsOf(ppConfig) \subseteq ppNamed[c]
    \/ /\ PP!WaysOut(ppConfig) \subseteq ppNamed[c]
       /\ ppConfig.mode = "direct" => ~ppConfig.enforce
       /\ ppCall[c].at = "custom" => ppConfig.mode = "custom"
       /\ ppCall[c].at \in {"urls", "strategy"} => ppConfig.mode = "pool"
(* A call that has its client, or is about to get it, may use it.          *)
ChosenByConfig(c) ==
    ppCall[c].second \/ ppCall[c].at \in {"client", "send"} => ppCall[c].client \in ppNamed[c]
(* A call that is not at work has chosen nothing.                          *)
CallFits(c) ==
    /\ PP!Busy(c) => SeenBy(c) /\ ChosenByConfig(c)
    /\ ~PP!Busy(c) => ~ppCall[c].second
(* The inductive invariant of the pool.                                    *)
PoolInv ==
    /\ PP!TypeOK /\ CallsKept /\ ListKept
    /\ \A c \in ProxyCalls : CallFits(c)

(* Lemma: a pool that nobody has called satisfies the invariant.           *)
LEMMA PoolInit == ASSUME PP!ProxyPoolAssumption, PP!Init PROVE PoolInv
<1>1. \A c \in ProxyCalls : ppCall[c] = [at |-> "idle", second |-> FALSE, client |-> PP!NoUrl]
  BY DEF PP!Init, PP!IdleCall
<1>2. PP!TypeOK
  <2>1. ppConfig \in ProxyConfigs /\ ppCounter \in 0 .. CounterCycle - 1
    BY DEF PP!Init, PP!ProxyPoolAssumption
  <2> QED
    BY <1>1, <2>1 DEF PP!Init, PP!TypeOK
<1>3. CallsKept
  BY DEF PP!Init, PP!IdleCall, CallsKept, PoolCalls, PoolPlaces, PoolClients
<1>4. ListKept
  BY <1>1 DEF ListKept, PP!ListRead
<1>5. \A c \in ProxyCalls : CallFits(c)
  BY <1>1 DEF CallFits, PP!Busy
<1> QED
  BY <1>2, <1>3, <1>4, <1>5 DEF PoolInv

(* Lemma: what a configuration lets a call use is known.                   *)
LEMMA WaysAreKnown == ASSUME PoolInv PROVE PP!WaysOut(ppConfig) \subseteq PoolClients
<1>1. ppConfig \in ProxyConfigs
  BY DEF PoolInv, PP!TypeOK
<1> QED
  BY <1>1 DEF PP!WaysOut, PP!PartsOf, PoolClients

(* Lemma: a call whose step leaves the configuration and the update alone  *)
(* preserves the invariant, if it ends up sound itself.                    *)
LEMMA CallMoves ==
  ASSUME PoolInv, NEW c \in ProxyCalls, UNCHANGED <<ppConfig, ppUpdate>>, CallsKept',
         \A d \in ProxyCalls \ {c} : ppCall'[d] = ppCall[d] /\ ppNamed'[d] = ppNamed[d],
         ppCounter' \in 0 .. CounterCycle - 1, ppOrderly' \in BOOLEAN,
         ppCall'[c].at = "strategy" => PP!Size # 0 /\ "urls" \notin ppUpdate,
         CallFits(c)'
  PROVE  PoolInv'
<1>1. PP!TypeOK'
  <2>1. \A d \in ProxyCalls : ppCall'[d].at \in PoolPlaces
    BY DEF CallsKept, PoolCalls
  <2> QED
    BY <2>1 DEF PoolInv, PP!TypeOK, PoolPlaces
<1>2. ListKept'
  BY DEF PoolInv, ListKept, PP!ListRead, PP!Size
<1>3. ASSUME NEW d \in ProxyCalls \ {c} PROVE CallFits(d)'
  <2>1. CallFits(d) /\ ppCall'[d] = ppCall[d] /\ ppNamed'[d] = ppNamed[d]
    BY DEF PoolInv
  <2> QED
    BY <2>1 DEF CallFits, SeenBy, ChosenByConfig, PP!Busy, PP!PartsOf, PP!WaysOut, PP!Listed
<1> QED
  BY <1>1, <1>2, <1>3 DEF PoolInv

(* Lemma: the end of a call preserves the invariant.                       *)
LEMMA CallEnds ==
  ASSUME PoolInv, NEW c \in ProxyCalls, PP!Over(c), ppOrderly' \in BOOLEAN
  PROVE  PoolInv'
<1>1. /\ ppCall' = [ppCall EXCEPT ![c] = PP!IdleCall]
      /\ ppNamed' = [ppNamed EXCEPT ![c] = {}]
      /\ UNCHANGED <<ppConfig, ppCounter, ppUpdate>>
  BY DEF PP!Over
<1>2. /\ PP!IdleCall \in PoolCalls
      /\ PP!IdleCall.at = "idle" /\ ~PP!IdleCall.second
  BY DEF PP!IdleCall, PoolCalls, PoolPlaces, PoolClients
<1>3. /\ CallsKept' /\ ppCall'[c] = PP!IdleCall
      /\ \A d \in ProxyCalls \ {c} : ppCall'[d] = ppCall[d] /\ ppNamed'[d] = ppNamed[d]
  BY <1>1, <1>2 DEF PoolInv, CallsKept
<1>4. CallFits(c)'
  BY <1>2, <1>3 DEF CallFits, PP!Busy
<1>5. ppCounter' \in 0 .. CounterCycle - 1
  BY <1>1 DEF PoolInv, PP!TypeOK
<1> QED
  BY <1>1, <1>2, <1>3, <1>4, <1>5, CallMoves

(* Lemma: a call that goes on keeps what it may use; sound where it is     *)
(* now, it preserves the invariant.                                        *)
LEMMA CallGoesOn ==
  ASSUME PoolInv, NEW c \in ProxyCalls, CallsKept',
         UNCHANGED <<ppConfig, ppUpdate, ppNamed, ppOrderly>>,
         \A d \in ProxyCalls \ {c} : ppCall'[d] = ppCall[d],
         ppCounter' \in 0 .. CounterCycle - 1,
         ppCall'[c].at # "idle",
         ppCall'[c].at = "strategy" => PP!Size # 0 /\ "urls" \notin ppUpdate,
         SeenBy(c)', ChosenByConfig(c)'
  PROVE  PoolInv'
<1>1. CallFits(c)'
  BY DEF CallFits, PP!Busy
<1>2. ppOrderly' \in BOOLEAN
  BY DEF PoolInv, PP!TypeOK
<1> QED
  BY <1>1, <1>2, CallMoves

(* Lemma: where its mode does not matter, a call that has seen what it may *)
(* use goes on having seen it.                                             *)
LEMMA StillSeen ==
  ASSUME NEW c \in ProxyCalls, SeenBy(c), UNCHANGED <<ppConfig, ppNamed>>,
         \/ ppCall'[c].at \notin {"custom", "urls", "strategy"}
         \/ ppCall'[c].at = "custom" /\ ppConfig.mode = "custom"
         \/ ppCall'[c].at = "urls" /\ ppConfig.mode = "pool"
         \/ ppCall'[c].at = "strategy" /\ ppCall[c].at = "urls"
  PROVE  SeenBy(c)'
BY DEF SeenBy, PP!PartsOf, PP!WaysOut, PP!Listed

(* Lemma: an address that a call may use is selected soundly.              *)
LEMMA SelectedSound ==
  ASSUME PoolInv, NEW c \in ProxyCalls, NEW url, PP!Busy(c), url \in ppNamed[c],
         UNCHANGED <<ppConfig, ppUpdate, ppNamed, ppOrderly>>,
         ppCounter' \in 0 .. CounterCycle - 1, PP!Selected(c, url)
  PROVE  PoolInv'
<1>1. /\ ppCall \in [ProxyCalls -> PoolCalls] /\ url \in PoolClients
      /\ SeenBy(c) /\ ChosenByConfig(c)
  BY DEF PoolInv, CallsKept, CallFits
<1>2. /\ ppCall' \in [ProxyCalls -> PoolCalls]
      /\ \A d \in ProxyCalls \ {c} : ppCall'[d] = ppCall[d]
      /\ ppCall'[c].at \in {"client", "send"}
      /\ ppCall'[c].client = url \/ (ppCall[c].second /\ ppCall'[c].client = ppCall[c].client)
  <2>1. CASE ppCall[c].second
    <3>1. ppCall' = [ppCall EXCEPT ![c].at = "send"]
      BY <2>1 DEF PP!Selected
    <3> QED
      BY <1>1, <2>1, <3>1 DEF PoolCalls, PoolPlaces
  <2>2. CASE ~ppCall[c].second
    <3>1. ppCall' = [ppCall EXCEPT ![c].at = "client", ![c].client = url]
      BY <2>2 DEF PP!Selected
    <3> QED
      BY <1>1, <2>2, <3>1 DEF PoolCalls, PoolPlaces
  <2> QED
    BY <2>1, <2>2
<1>3. CallsKept'
  BY <1>2 DEF PoolInv, CallsKept
<1>4. SeenBy(c)' /\ ChosenByConfig(c)'
  BY <1>1, <1>2, StillSeen DEF ChosenByConfig
<1> QED
  BY <1>2, <1>3, <1>4, CallGoesOn

(* Lemma: so is a move within a selection.                                 *)
LEMMA GoSound ==
  ASSUME PoolInv, NEW c \in ProxyCalls, NEW where \in {"custom", "urls", "strategy"},
         PP!Busy(c), PP!Go(c, where),
         \/ where = "custom" /\ ppConfig.mode = "custom"
         \/ where = "urls" /\ ppConfig.mode = "pool"
         \/ where = "strategy" /\ ppCall[c].at = "urls" /\ PP!Size # 0 /\ "urls" \notin ppUpdate
  PROVE  PoolInv'
<1>1. SeenBy(c) /\ ChosenByConfig(c) /\ CallsKept
  BY DEF PoolInv, CallFits
<1>2. ppCall' = [ppCall EXCEPT ![c].at = where] /\ PP!Stays
  BY DEF PP!Go
<1>3. /\ ppCall' \in [ProxyCalls -> PoolCalls]
      /\ \A d \in ProxyCalls \ {c} : ppCall'[d] = ppCall[d]
      /\ ppCall'[c].at = where /\ ppCall'[c].second = ppCall[c].second
      /\ ppCall'[c].client = ppCall[c].client
  BY <1>1, <1>2 DEF CallsKept, PoolCalls, PoolPlaces
<1>4. ppCounter' \in 0 .. CounterCycle - 1 /\ UNCHANGED <<ppConfig, ppUpdate, ppNamed, ppOrderly>>
  BY <1>2 DEF PP!Stays, PoolInv, PP!TypeOK
<1>5. CallsKept'
  BY <1>1, <1>3, <1>4 DEF CallsKept
<1>6. SeenBy(c)' /\ ChosenByConfig(c)'
  BY <1>1, <1>3, <1>4, StillSeen DEF ChosenByConfig
<1> QED
  BY <1>3, <1>4, <1>5, <1>6, CallGoesOn

(* Lemma: reading the mode, the custom address and the list preserves the  *)
(* invariant.                                                              *)
LEMMA PoolReadStep ==
  ASSUME PoolInv, NEW c \in ProxyCalls,
         PP!ReadMode(c) \/ PP!ReadCustom(c) \/ PP!ReadUrls(c)
  PROVE  PoolInv'
<1>1. PP!Busy(c) /\ SeenBy(c)
  BY DEF PP!ReadMode, PP!ReadCustom, PP!ReadUrls, PP!Busy, PoolInv, CallFits
<1>2. CASE PP!Fail(c)
  BY <1>2, CallEnds DEF PP!Fail
<1>3. ASSUME NEW url \in ppNamed[c], PP!Selected(c, url), PP!Stays PROVE PoolInv'
  <2>1. ppCounter' \in 0 .. CounterCycle - 1
    BY <1>3 DEF PP!Stays, PoolInv, PP!TypeOK
  <2>2. UNCHANGED <<ppConfig, ppUpdate, ppNamed, ppOrderly>>
    BY <1>3 DEF PP!Stays
  <2> QED
    BY <1>1, <1>3, <2>1, <2>2, SelectedSound
<1>4. CASE PP!ReadMode(c)
  <2>1. CASE ppConfig.mode = "direct" /\ PP!Selected(c, PP!NoUrl) /\ PP!Stays
    <3>1. CASE PP!NoUrl \in ppNamed[c]
      BY <1>3, <2>1, <3>1
    <3>2. CASE PP!NoUrl \notin ppNamed[c]
      <4>1. PP!NoUrl \in PP!PartsOf(ppConfig)
        BY <2>1 DEF PP!PartsOf
      <4>2. PP!WaysOut(ppConfig) \subseteq ppNamed[c] /\ ~ppConfig.enforce
        BY <1>1, <2>1, <3>2, <4>1 DEF SeenBy
      <4>3. PP!NoUrl \in PP!WaysOut(ppConfig)
        BY <2>1, <4>2 DEF PP!WaysOut
      <4> QED
        BY <3>2, <4>2, <4>3
    <3> QED
      BY <3>1, <3>2
  <2>2. CASE ppConfig.mode = "custom" /\ PP!Go(c, "custom")
    BY <1>1, <2>2, GoSound DEF SeenBy
  <2>3. CASE ppConfig.mode = "pool" /\ PP!Go(c, "urls")
    BY <1>1, <2>3, GoSound DEF SeenBy
  <2> QED
    BY <1>4, <2>1, <2>2, <2>3 DEF PP!ReadMode
<1>5. CASE PP!ReadCustom(c)
  <2>1. CASE ppConfig.custom # PP!NoUrl /\ PP!Selected(c, ppConfig.custom) /\ PP!Stays
    <3>1. ppConfig.custom \in PP!PartsOf(ppConfig)
      BY <2>1 DEF PP!PartsOf
    <3>2. ppConfig.mode = "custom" => ppConfig.custom \in PP!WaysOut(ppConfig)
      BY <2>1 DEF PP!WaysOut
    <3>3. ppConfig.custom \in ppNamed[c]
      BY <1>1, <1>5, <3>1, <3>2 DEF SeenBy, PP!ReadCustom
    <3> QED
      BY <1>3, <2>1, <3>3
  <2> QED
    BY <1>2, <1>5, <2>1 DEF PP!ReadCustom
<1>6. CASE PP!ReadUrls(c)
  <2>1. CASE PP!Size # 0 /\ PP!Go(c, "strategy")
    <3>1. ppCall[c].at = "urls" /\ "urls" \notin ppUpdate
      BY <1>6 DEF PP!ReadUrls
    <3> QED
      BY <1>1, <2>1, <3>1, GoSound DEF SeenBy
  <2> QED
    BY <1>2, <1>6, <2>1 DEF PP!ReadUrls, PP!NoProxy
<1> QED
  BY <1>4, <1>5, <1>6

(* Lemma: the place every strategy picks is one of the list, which the     *)
(* call may use.                                                           *)
LEMMA PickedIsListed ==
  ASSUME PP!ProxyPoolAssumption, PoolInv, NEW c \in ProxyCalls, ppCall[c].at = "strategy"
  PROVE  /\ (ppCounter % PP!Size) + 1 \in 1 .. PP!Size
         /\ (HashOf[c] % PP!Size) + 1 \in 1 .. PP!Size
         /\ \A i \in 1 .. PP!Size : ppConfig.urls[i] \in ppNamed[c]
<1>1. PP!Size \in Nat \ {0} /\ HashOf[c] \in Nat /\ ppCounter \in Nat
  <2>1. PP!Size # 0
    BY DEF PoolInv, ListKept, PP!ListRead
  <2>2. ppConfig \in ProxyConfigs /\ ppCounter \in 0 .. CounterCycle - 1
    BY DEF PoolInv, PP!TypeOK
  <2>3. PP!Size \in Nat
    BY <2>2, Zenon DEF PP!ProxyPoolAssumption, PP!Size
  <2>4. CounterCycle \in Nat \ {0} /\ HashOf[c] \in Nat
    BY DEF PP!ProxyPoolAssumption
  <2> QED
    BY <2>1, <2>2, <2>3, <2>4
<1>2. ppCounter % PP!Size \in 0 .. PP!Size - 1 /\ HashOf[c] % PP!Size \in 0 .. PP!Size - 1
  BY <1>1, SMT
<1>3. \A i \in 1 .. PP!Size : ppConfig.urls[i] \in PP!Listed(ppConfig)
  BY DEF PP!ProxyPoolAssumption, PoolInv, PP!TypeOK, PP!Size, PP!Listed
<1>4. PP!Listed(ppConfig) \subseteq ppNamed[c]
  <2>1. SeenBy(c)
    BY DEF PoolInv, CallFits, PP!Busy
  <2>2. PP!Listed(ppConfig) \subseteq PP!PartsOf(ppConfig)
    BY DEF PP!PartsOf
  <2>3. ppConfig.mode = "pool" => PP!Listed(ppConfig) = PP!WaysOut(ppConfig)
    BY DEF PP!WaysOut
  <2> QED
    BY <2>1, <2>2, <2>3 DEF SeenBy
<1> QED
  BY <1>1, <1>2, <1>3, <1>4

(* Lemma: choosing from the list preserves the invariant.                  *)
LEMMA PickStep ==
  ASSUME PP!ProxyPoolAssumption, PoolInv, NEW c \in ProxyCalls, PP!Pick(c)
  PROVE  PoolInv'
<1>1. ppCall[c].at = "strategy" /\ PP!Busy(c)
  BY DEF PP!Pick, PP!Busy
<1>2. CASE PP!Fail(c)
  BY <1>2, CallEnds DEF PP!Fail
<1>3. ASSUME NEW url \in ppNamed[c], PP!Selected(c, url),
             ppCounter' \in {ppCounter, (ppCounter + 1) % CounterCycle},
             UNCHANGED <<ppConfig, ppUpdate, ppNamed, ppOrderly>>
      PROVE  PoolInv'
  <2>1. CounterCycle \in Nat \ {0} /\ ppCounter \in 0 .. CounterCycle - 1
    BY DEF PP!ProxyPoolAssumption, PoolInv, PP!TypeOK
  <2>2. ppCounter' \in 0 .. CounterCycle - 1
    BY <1>3, <2>1, SMT
  <2> QED
    BY <1>1, <1>3, <2>2, SelectedSound
<1>4. /\ (ppCounter % PP!Size) + 1 \in 1 .. PP!Size
      /\ (HashOf[c] % PP!Size) + 1 \in 1 .. PP!Size
      /\ \A i \in 1 .. PP!Size : ppConfig.urls[i] \in ppNamed[c]
  BY <1>1, PickedIsListed
<1>5. PP!Fail(c) \/ \E url \in ppNamed[c] :
        /\ PP!Selected(c, url)
        /\ ppCounter' \in {ppCounter, (ppCounter + 1) % CounterCycle}
        /\ UNCHANGED <<ppConfig, ppUpdate, ppNamed, ppOrderly>>
  BY <1>4 DEF PP!Pick, PP!Stays
<1> QED
  BY <1>2, <1>3, <1>5

(* Lemma: a call that begins preserves the invariant.                      *)
LEMMA CallBegins ==
  ASSUME PoolInv, NEW c \in ProxyCalls, PP!Begin(c)
  PROVE  PoolInv'
<1> DEFINE call == IF ppConfig.mode = "direct" THEN PP!AfterClient(c, PP!NoUrl)
                   ELSE [at |-> "mode", second |-> FALSE, client |-> PP!NoUrl]
<1>1. /\ ppCall' = [ppCall EXCEPT ![c] = call]
      /\ ppNamed' = [ppNamed EXCEPT ![c] = PP!WaysOut(ppConfig)]
      /\ UNCHANGED <<ppConfig, ppCounter, ppUpdate>> /\ ppOrderly' \in BOOLEAN
  BY DEF PP!Begin
<1>2. /\ call \in PoolCalls
      /\ call.at \in {"mode", "send"} /\ call.client = PP!NoUrl
      /\ call.second \/ call.at = "send" => ppConfig.mode = "direct"
  BY DEF PP!AfterClient, PoolCalls, PoolPlaces, PoolClients
<1> HIDE DEF call
<1>3. /\ ppCall'[c] = call /\ ppNamed'[c] = PP!WaysOut(ppConfig)
      /\ \A d \in ProxyCalls \ {c} : ppCall'[d] = ppCall[d] /\ ppNamed'[d] = ppNamed[d]
      /\ CallsKept'
  BY <1>1, <1>2, WaysAreKnown DEF PoolInv, CallsKept
<1>4. CallFits(c)'
  <2>1. PP!WaysOut(ppConfig)' = PP!WaysOut(ppConfig)
    BY <1>1 DEF PP!WaysOut, PP!Listed
  <2>2. ppConfig.mode = "direct" => PP!NoUrl \in PP!WaysOut(ppConfig)
    BY DEF PP!WaysOut, PP!Begin
  <2>3. SeenBy(c)'
    BY <1>1, <1>2, <1>3, <2>1 DEF SeenBy, PP!Begin
  <2>4. ChosenByConfig(c)'
    BY <1>2, <1>3, <2>2 DEF ChosenByConfig
  <2> QED
    BY <1>2, <1>3, <2>3, <2>4 DEF CallFits, PP!Busy
<1>5. ppCounter' \in 0 .. CounterCycle - 1
  BY <1>1 DEF PoolInv, PP!TypeOK
<1> QED
  BY <1>1, <1>2, <1>3, <1>4, <1>5, CallMoves

(* Lemma: getting the client preserves the invariant.                      *)
LEMMA ClientStep ==
  ASSUME PoolInv, NEW c \in ProxyCalls, PP!GetClient(c)
  PROVE  PoolInv'
<1>1. CASE PP!Fail(c)
  BY <1>1, CallEnds DEF PP!Fail
<1>2. CASE /\ ppCall' = [ppCall EXCEPT ![c] = PP!AfterClient(c, ppCall[c].client)]
           /\ UNCHANGED <<ppConfig, ppCounter, ppUpdate, ppNamed, ppServed, ppOrderly>>
  <2> DEFINE call == PP!AfterClient(c, ppCall[c].client)
  <2>1. ppCall[c].client \in ppNamed[c] /\ SeenBy(c) /\ CallsKept
    BY DEF PP!GetClient, PP!Busy, PoolInv, CallFits, ChosenByConfig
  <2>2. call \in PoolCalls /\ call.at \in {"mode", "send"} /\ call.client = ppCall[c].client
    BY <2>1 DEF PP!AfterClient, PoolCalls, PoolPlaces, CallsKept
  <2>3. ppCounter' \in 0 .. CounterCycle - 1 /\ ppCall' = [ppCall EXCEPT ![c] = call]
    BY <1>2 DEF PoolInv, PP!TypeOK
  <2> HIDE DEF call
  <2>4. /\ CallsKept' /\ ppCall'[c] = call
        /\ \A d \in ProxyCalls \ {c} : ppCall'[d] = ppCall[d]
    BY <1>2, <2>1, <2>2, <2>3 DEF CallsKept
  <2>5. SeenBy(c)' /\ ChosenByConfig(c)'
    BY <1>2, <2>1, <2>2, <2>4, StillSeen DEF ChosenByConfig
  <2> QED
    BY <1>2, <2>2, <2>3, <2>4, <2>5, CallGoesOn
<1> QED
  BY <1>1, <1>2 DEF PP!GetClient

(* Lemma: a new configuration preserves the invariant.                     *)
LEMMA PoolUpdateStep ==
  ASSUME PP!ProxyPoolAssumption, PoolInv, NEW new \in ProxyConfigs, PP!UpdateConfig(new)
  PROVE  PoolInv'
<1>1. /\ ppConfig' = new /\ ppUpdate' = {}
      /\ UNCHANGED <<ppCounter, ppCall>> /\ "urls" \in ppUpdate
      /\ ppOrderly' = \A c \in ProxyCalls : ~PP!Busy(c)
      /\ ppNamed' = [c \in ProxyCalls |-> IF PP!Busy(c) THEN ppNamed[c] \union PP!PartsOf(new)
                                          ELSE {}]
  BY DEF PP!UpdateConfig
<1>2. PP!TypeOK' /\ CallsKept'
  BY <1>1 DEF PoolInv, PP!TypeOK, CallsKept, PoolClients
<1>3. ListKept'
  BY <1>1 DEF PoolInv, ListKept, PP!ListRead
<1>4. ASSUME NEW c \in ProxyCalls PROVE CallFits(c)'
  <2>1. CASE PP!Busy(c)
    <3>1. ppNamed'[c] = ppNamed[c] \union PP!PartsOf(new) /\ ChosenByConfig(c)
      BY <1>1, <2>1 DEF PoolInv, CallFits
    <3>2. PP!PartsOf(ppConfig)' = PP!PartsOf(new)
      BY <1>1 DEF PP!PartsOf, PP!Listed
    <3>3. SeenBy(c)' /\ ChosenByConfig(c)'
      BY <1>1, <3>1, <3>2 DEF SeenBy, ChosenByConfig
    <3> QED
      BY <1>1, <2>1, <3>3 DEF CallFits, PP!Busy
  <2>2. CASE ~PP!Busy(c)
    BY <1>1, <2>2 DEF PoolInv, CallFits, PP!Busy
  <2> QED
    BY <2>1, <2>2
<1> QED
  BY <1>2, <1>3, <1>4 DEF PoolInv

(* Lemma: every step of the pool preserves the invariant.                  *)
LEMMA PoolStep ==
  ASSUME PP!ProxyPoolAssumption, PoolInv, [PP!Next]_(PP!ppVars)
  PROVE  PoolInv'
<1>1. ASSUME UNCHANGED <<ppConfig, ppCounter, ppCall, ppNamed, ppOrderly>>,
             \/ ppUpdate' = ppUpdate
             \/ ppUpdate' \subseteq {"mode", "strategy"}
             \/ ppUpdate' = {"mode", "strategy", "urls"} /\ ~PP!ListRead
      PROVE  PoolInv'
  <2>1. PP!TypeOK' /\ CallsKept'
    BY <1>1 DEF PoolInv, PP!TypeOK, CallsKept
  <2>2. ListKept'
    BY <1>1 DEF PoolInv, ListKept, PP!ListRead, PP!Size
  <2>3. \A c \in ProxyCalls : CallFits(c)'
    BY <1>1 DEF PoolInv, CallFits, SeenBy, ChosenByConfig, PP!Busy, PP!PartsOf, PP!WaysOut,
                PP!Listed
  <2> QED
    BY <2>1, <2>2, <2>3 DEF PoolInv
<1>2. CASE \E c \in ProxyCalls : PP!Begin(c)
  BY <1>2, CallBegins
<1>3. CASE \E c \in ProxyCalls : PP!ReadMode(c) \/ PP!ReadCustom(c) \/ PP!ReadUrls(c)
  BY <1>3, PoolReadStep
<1>4. CASE \E c \in ProxyCalls : PP!Pick(c)
  BY <1>4, PickStep
<1>5. CASE \E c \in ProxyCalls : PP!GetClient(c)
  BY <1>5, ClientStep
<1>6. CASE \E c \in ProxyCalls : PP!Send(c) \/ PP!Drop(c)
  BY <1>6, CallEnds DEF PP!Send, PP!Drop, PP!Fail, PoolInv, PP!TypeOK
<1>7. CASE \E c \in ProxyCalls, url \in OwnProxies : PP!UseOwn(c, url)
  BY <1>1, <1>7 DEF PP!UseOwn
<1>8. CASE PP!UpdateMode \/ PP!UpdateStrategy \/ PP!UpdateUrls
  BY <1>1, <1>8 DEF PP!UpdateMode, PP!UpdateStrategy, PP!UpdateUrls, PP!Take
<1>9. CASE \E new \in ProxyConfigs : PP!UpdateConfig(new)
  BY <1>9, PoolUpdateStep
<1>10. CASE UNCHANGED PP!ppVars
  BY <1>1, <1>10 DEF PP!ppVars
<1> QED
  BY <1>2, <1>3, <1>4, <1>5, <1>6, <1>7, <1>8, <1>9, <1>10 DEF PP!Next

(* Theorem: the invariant of the pool holds in every reachable state.      *)
THEOREM PoolInvariance == ASSUME PP!ProxyPoolAssumption PROVE PP!Spec => []PoolInv
BY PoolInit, PoolStep, PTL DEF PP!Spec

(* Theorem: the pool keeps to its types for any configurations, calls and  *)
(* addresses.                                                              *)
THEOREM PoolTypeCorrect == ASSUME PP!ProxyPoolAssumption PROVE PP!Spec => []PP!TypeOK
<1>1. PoolInv => PP!TypeOK
  BY DEF PoolInv
<1> QED
  BY <1>1, PoolInvariance, PTL

(* Theorem: however many calls read the configuration field by field while *)
(* it is replaced any number of times, each goes out only by a way that    *)
(* was configured while it was at work (proxy_pool.rs:230).                *)
THEOREM ProxyAlwaysHonoured ==
  ASSUME PP!ProxyPoolAssumption
  PROVE  PP!Spec => []ProxyHonoured
<1>1. PoolInv => ProxyHonoured
  BY DEF PoolInv, CallFits, ChosenByConfig, PP!Busy, ProxyHonoured, PP!ProxyHonoured
<1> QED
  BY <1>1, PoolInvariance, PTL

-------------------------------------------------------------------------------
(* AccountStore: the index and the files of the accounts. Listings and the *)
(* saves of the API write without the lock of the index; until one of them *)
(* crosses another writer (acCrossed), what the holder of the lock is      *)
(* about to write is as sound as what is stored.                           *)

(* Ids that were made, and those that only may be asked for.               *)
Tried == (Emails \X (0..2)) \union {<<>>}
(* What a thread may be doing.                                             *)
ThreadRecords == [op : AC!Ops \union {"idle", "add"}, email : Emails \union {""}, id : Tried,
                  pc : {"start", "read", "check", "load", "file", "index", "remove"},
                  copy : SUBSET AC!Ids, bad : SUBSET AC!Ids, todo : SUBSET AC!Ids]
(* The types of the whole state, the local ones included.                  *)
StoreTypes == /\ AC!TypeOK /\ acThread \in [Threads -> ThreadRecords] /\ acCrossed \in BOOLEAN

(* A thread inside the locked part of its operation.                       *)
Holds(t) == acThread[t].op \in AC!LockedOps \union {"add"} /\ acThread[t].pc # "start"
(* An index that names no e-mail twice.                                    *)
Listed(index) == \A i, j \in index : i[1] = j[1] => i = j
(* An index that names each kept account, with its file.                   *)
Kept(index) == \A e \in acKept : \E id \in index : id[1] = e /\ id \in acFiles
(* The entries whose file is missing.                                      *)
Lost(index) == index \ acFiles
(* A batch that removed the file and has not written the index.            *)
Leaving(t, id) ==
    acThread[t].op = "delete batch" /\ acThread[t].pc = "index" /\ acThread[t].id = id
(* The kept accounts are listed once and have their files; an entry        *)
(* without a file was cut by a crash or is about to go.                    *)
FilesSound == /\ Kept(acIndex) /\ Listed(acIndex)
              /\ \A id \in Lost(acIndex) : id \in acCut \/ \E t \in Threads : Leaving(t, id)

(* Each operation passes through its own places, with an id where it needs *)
(* one.                                                                    *)
PlaceFits(t) ==
    LET th == acThread[t]
    IN  /\ th.op = "idle" => th.pc = "start"
        /\ th.op # "idle" => th.email \in Emails
        /\ th.op = "list" => th.pc \in {"start", "read", "check", "index"}
        /\ th.op = "save" => th.pc \in {"start", "load", "file"}
        /\ th.op = "quota" => th.pc \in {"start", "load", "file"}
        /\ th.op \in {"add", "upsert"} => th.pc \in {"start", "read", "file", "index"}
        /\ th.op = "reindex" => th.pc \in {"start", "read", "index"}
        /\ th.op \in {"delete", "delete batch"} => th.pc \in {"start", "read", "remove", "index"}
        /\ t \in acSaving => th.pc \in {"file", "index"}
        /\ th.op \in {"delete", "delete batch"} => th.id \in AC!Ids
        /\ th.pc = "file" => th.id \in AC!Ids
(* Who holds the lock of the index is in the locked part, and the other    *)
(* way round.                                                              *)
LockKept == \A t \in Threads : acLock = t <=> Holds(t)

(* A thread that holds the lock and is about to write what it read.        *)
Writing(t) ==
    Holds(t) /\ acThread[t].pc \in {"file", "index", "remove"} /\ acThread[t].op # "quota"
(* The index such a thread has in memory is as sound as the one on disk,   *)
(* and has the change it is about to write.                                *)
CopySound(t) == Writing(t) =>
    LET th == acThread[t]
    IN  /\ th.op = "delete" /\ th.pc = "remove" => th.id \notin acIndex
        /\ th.op # "delete" \/ th.pc # "remove" => Listed(th.copy) /\ Kept(th.copy)
        /\ th.op = "add" /\ th.pc = "file" => Lost(th.copy) \subseteq acCut \union {th.id}
        /\ th.op # "add" \/ th.pc # "file" => Lost(th.copy) \subseteq acCut
        /\ th.op \in {"add", "upsert"} =>
               /\ th.id \in th.copy /\ th.id[1] = th.email
               /\ (th.pc = "index" => th.id \in acFiles)
        /\ th.op \in {"delete", "delete batch"} =>
               th.id \notin th.copy /\ (th.id \in acIndex => th.id[1] \notin acKept)
(* The files and every copy are sound.                                     *)
Sound == FilesSound /\ \A t \in Threads : CopySound(t)
(* The inductive invariant of the store: types, lock and places always,    *)
(* soundness until an unlocked writer crossed another.                     *)
StoreInv == /\ StoreTypes /\ LockKept /\ \A t \in Threads : PlaceFits(t)
            /\ acCrossed \/ Sound

(* Lemma: a store of one account satisfies the invariant.                  *)
LEMMA StoreInit ==
  ASSUME AC!AccountStoreAssumption, AC!Init PROVE StoreInv
<1> USE DEF AC!Idle
<1>1. PICK first : /\ first = {<<e, 1>> : e \in {CHOOSE e \in Emails : TRUE}}
                   /\ acIndex = first /\ acFiles = first /\ acKept = {id[1] : id \in first}
                   /\ acMade = [e \in Emails |-> IF e \in {id[1] : id \in first} THEN 1 ELSE 0]
                   /\ acLock = "none" /\ acThread = [t \in Threads |-> AC!Idle]
                   /\ acSaving = {}
                   /\ acCut = {} /\ acCrossed = FALSE
  BY DEF AC!Init
<1>2. PICK e : e \in Emails /\ first = {<<e, 1>>}
  <2>1. (CHOOSE e \in Emails : TRUE) \in Emails
    BY DEF AC!AccountStoreAssumption
  <2>2. first = {<<CHOOSE e \in Emails : TRUE, 1>>}
    BY <1>1
  <2> QED BY <2>1, <2>2
<1>e. \A x : x \in {id[1] : id \in first} <=> x = e
  <2>1. \A x : x \in {id[1] : id \in first} <=> \E id \in first : x = id[1]
    OBVIOUS
  <2>2. \A x : (\E id \in first : x = id[1]) <=> x = e
    BY <1>2
  <2> QED BY <2>1, <2>2
<1>3. StoreTypes
  <2>1. acIndex \subseteq AC!Ids /\ acFiles \subseteq AC!Ids /\ acKept \subseteq Emails
    <3>1. <<e, 1>> \in AC!Ids
      BY <1>2 DEF AC!Ids
    <3> QED BY <1>1, <1>2, <1>e, <3>1
  <2>2. acMade \in [Emails -> 0..2]
    <3>1. \A f \in Emails : (IF f \in {id[1] : id \in first} THEN 1 ELSE 0) \in 0..2
      BY <1>e
    <3> QED BY <1>1, <3>1
  <2>3. acThread \in [Threads -> ThreadRecords]
    BY <1>1 DEF ThreadRecords, Tried
  <2> QED BY <1>1, <2>1, <2>2, <2>3 DEF StoreTypes, AC!TypeOK
<1>4. LockKept /\ \A t \in Threads : PlaceFits(t)
  BY <1>1 DEF LockKept, Holds, PlaceFits, AC!AccountStoreAssumption
<1>5. Sound
  <2>1. Kept(acIndex) /\ Listed(acIndex) /\ Lost(acIndex) = {}
    BY <1>1, <1>2, <1>e DEF Kept, Listed, Lost
  <2>2. \A t \in Threads : CopySound(t)
    BY <1>1 DEF CopySound, Writing, Holds
  <2> QED BY <2>1, <2>2 DEF Sound, FilesSound
<1> QED BY <1>3, <1>4, <1>5 DEF StoreInv
(* Lemma: a copy held by another thread than the writer stays sound when   *)
(* the kept accounts keep their files.                                     *)
LEMMA OthersStay ==
  ASSUME StoreInv, Sound, NEW t \in Threads, NEW u \in Threads \ {t},
         acThread'[u] = acThread[u],
         \/ acLock = t
         \/ /\ acIndex' \subseteq acIndex /\ acFiles \subseteq acFiles'
            /\ acKept' = acKept /\ acCut' = acCut
  PROVE  CopySound(u)'
<1>1. CASE acLock = t
  BY <1>1 DEF StoreInv, LockKept, Holds, CopySound, Writing
<1>2. CASE /\ acIndex' \subseteq acIndex /\ acFiles \subseteq acFiles'
           /\ acKept' = acKept /\ acCut' = acCut
  <2>1. CopySound(u) /\ (Writing(u)' <=> Writing(u))
    BY DEF Sound, Writing, Holds
  <2>2. \A index \in SUBSET AC!Ids : /\ Kept(index) => Kept(index)'
                                     /\ Lost(index)' \subseteq Lost(index)
                                     /\ Listed(index)' <=> Listed(index)
    BY <1>2 DEF Kept, Lost, Listed
  <2>3. acThread[u].copy \in SUBSET AC!Ids
    BY DEF StoreInv, StoreTypes, ThreadRecords
  <2> QED BY <1>2, <2>1, <2>2, <2>3 DEF CopySound
<1> QED BY <1>1, <1>2

(* Lemma: a step of one thread leaves the others in their places.          *)
LEMMA OthersPlaced ==
  ASSUME StoreInv, NEW t \in Threads, NEW u \in Threads \ {t},
         acThread'[u] = acThread[u], u \in acSaving' => u \in acSaving
  PROVE  PlaceFits(u)'
BY DEF StoreInv, PlaceFits

(* Lemma: a lock that passes only through the thread that moves stays with *)
(* who is in the locked part.                                              *)
LEMMA LockMoves ==
  ASSUME StoreInv, AC!AccountStoreAssumption, NEW t \in Threads,
         \A u \in Threads \ {t} : acThread'[u] = acThread[u],
         \/ acLock' = acLock /\ (Holds(t)' <=> Holds(t))
         \/ acLock = t /\ acLock' = "none" /\ ~Holds(t)'
         \/ acLock = "none" /\ acLock' = t /\ Holds(t)'
  PROVE  LockKept'
BY DEF StoreInv, LockKept, Holds, AC!AccountStoreAssumption

(* Lemma: a step of a thread gives it its new record and leaves the others *)
(* theirs.                                                                 *)
LEMMA SelfEffect ==
  ASSUME StoreTypes, NEW t \in Threads, NEW rec \in ThreadRecords,
         acThread' = [acThread EXCEPT ![t] = rec]
  PROVE  /\ acThread' \in [Threads -> ThreadRecords] /\ acThread'[t] = rec
         /\ \A u \in Threads \ {t} : acThread'[u] = acThread[u]
BY DEF StoreTypes

(* Lemma: files stay sound when none is removed and nothing kept is added. *)
LEMMA FilesKeep ==
  ASSUME FilesSound, StoreTypes, NEW t \in Threads,
         acThread[t].pc # "index" \/ acThread[t].op # "delete batch",
         \A u \in Threads \ {t} : acThread'[u] = acThread[u],
         acIndex' = acIndex, acFiles \subseteq acFiles', acKept' \subseteq acKept,
         acCut' = acCut
  PROVE  FilesSound'
<1>1. \A id : \A u \in Threads : Leaving(u, id) => Leaving(u, id)'
  BY DEF Leaving
<1> QED BY <1>1 DEF FilesSound, Kept, Listed, Lost

(* Lemma: a step inside an operation preserves the invariant when its own  *)
(* record, copy and files do.                                              *)
LEMMA MoveKeeps ==
  ASSUME StoreInv, AC!AccountStoreAssumption, NEW t \in Threads, NEW rec \in ThreadRecords,
         acThread' = [acThread EXCEPT ![t] = rec],
         acIndex' \subseteq AC!Ids, acFiles' \subseteq AC!Ids, acKept' \subseteq Emails,
         acMade' \in [Emails -> 0..2], acCut' = acCut, acCrossed' \in BOOLEAN,
         acSaving' \subseteq Threads, acSaving' \ {t} \subseteq acSaving,
         \/ acLock' = acLock /\ (Holds(t)' <=> Holds(t))
         \/ acLock = t /\ acLock' = "none" /\ ~Holds(t)'
         \/ acLock = "none" /\ acLock' = t /\ Holds(t)',
         PlaceFits(t)',
         ~acCrossed' => ~acCrossed,
         ~acCrossed' /\ Sound =>
            /\ \/ acLock = t
               \/ acIndex' \subseteq acIndex /\ acFiles \subseteq acFiles' /\ acKept' = acKept
            /\ CopySound(t)' /\ FilesSound'
  PROVE  StoreInv'
<1>1. /\ acThread' \in [Threads -> ThreadRecords] /\ acThread'[t] = rec
      /\ \A u \in Threads \ {t} : acThread'[u] = acThread[u]
  BY SelfEffect DEF StoreInv
<1>2. StoreTypes'
  <2>1. \A u \in Threads : acThread'[u] \in ThreadRecords
    BY <1>1
  <2>2. acLock' \in Threads \union {"none"} /\ acCut \subseteq AC!Ids
    BY DEF StoreInv, StoreTypes, AC!TypeOK
  <2> QED BY <1>1, <2>1, <2>2 DEF StoreTypes, AC!TypeOK, ThreadRecords
<1>3. LockKept'
  BY <1>1, LockMoves
<1>4. \A u \in Threads : PlaceFits(u)'
  BY <1>1, OthersPlaced
<1>5. ASSUME ~acCrossed' PROVE Sound'
  <2>1. Sound
    BY <1>5 DEF StoreInv
  <2>2. \A u \in Threads : CopySound(u)'
    BY <1>1, <1>5, <2>1, OthersStay
  <2> QED BY <1>5, <2>1, <2>2 DEF Sound
<1> QED BY <1>2, <1>3, <1>4, <1>5 DEF StoreInv

(* Lemma: a thread without an operation.                                   *)
LEMMA IdleFields == AC!Idle \in ThreadRecords /\ AC!Idle.op = "idle" /\ AC!Idle.pc = "start"
BY DEF ThreadRecords, Tried, AC!Idle

(* Lemma: an operation that ends preserves the invariant when the files it *)
(* leaves are sound.                                                       *)
LEMMA LeaveKeeps ==
  ASSUME StoreInv, AC!AccountStoreAssumption, NEW t \in Threads, AC!Leave(t),
         acIndex' \subseteq AC!Ids, acFiles' \subseteq AC!Ids, acKept' \subseteq Emails,
         acMade' \in [Emails -> 0..2], acCut' = acCut, acCrossed' \in BOOLEAN,
         acSaving' \subseteq acSaving \ {t},
         ~acCrossed' => ~acCrossed,
         ~acCrossed' /\ Sound =>
            /\ \/ acLock = t
               \/ acIndex' \subseteq acIndex /\ acFiles \subseteq acFiles' /\ acKept' = acKept
            /\ \/ FilesSound'
               \/ /\ acIndex' = acIndex /\ acFiles \subseteq acFiles' /\ acKept' = acKept
                  /\ acThread[t].pc # "index" \/ acThread[t].op # "delete batch"
  PROVE  StoreInv'
<1>0. StoreTypes /\ acThread[t] \in ThreadRecords /\ AC!TypeOK
  BY DEF StoreInv, StoreTypes
<1>1. /\ acThread' = [acThread EXCEPT ![t] = AC!Idle]
      /\ acLock' = IF acLock = t THEN "none" ELSE acLock
  BY DEF AC!Leave
<1>2. AC!Idle \in ThreadRecords /\ AC!Idle.op = "idle" /\ AC!Idle.pc = "start"
  BY IdleFields
<1>3. acThread'[t] = AC!Idle /\ \A u \in Threads \ {t} : acThread'[u] = acThread[u]
  BY <1>0, <1>1, <1>2, SelfEffect
<1>4. ~Holds(t)' /\ PlaceFits(t)' /\ CopySound(t)'
  BY <1>2, <1>3 DEF Holds, PlaceFits, CopySound, Writing
<1>5. \/ acLock' = acLock /\ (Holds(t)' <=> Holds(t))
      \/ acLock = t /\ acLock' = "none" /\ ~Holds(t)'
  BY <1>1, <1>4 DEF StoreInv, LockKept
<1>6. ~acCrossed' /\ Sound => FilesSound'
  BY <1>0, <1>3, FilesKeep DEF Sound
<1> QED BY <1>0, <1>1, <1>2, <1>4, <1>5, <1>6, MoveKeeps DEF AC!TypeOK

(* Lemma: beginning an operation preserves the invariant.                  *)
LEMMA StoreBegins ==
  ASSUME StoreInv, AC!AccountStoreAssumption, NEW t \in Threads, NEW op \in AC!Ops,
         NEW e \in Emails, AC!Begin(t, op, e)
  PROVE  StoreInv'
<1> DEFINE rec == [AC!Idle EXCEPT !.op = op, !.email = e, !.id = <<e, acMade[e]>>]
<1>0. /\ rec \in ThreadRecords /\ rec.op = op /\ rec.email = e /\ rec.id = <<e, acMade[e]>>
      /\ rec.pc = "start"
      /\ (op \in {"delete", "delete batch"} => <<e, acMade[e]>> \in AC!Ids)
  <2>1. acMade[e] \in 0..2 /\ (op \in {"delete", "delete batch"} => acMade[e] \in 1..2)
    <3>1. acMade[e] \in 0..2
      BY DEF StoreInv, StoreTypes, AC!TypeOK
    <3>2. op \in {"delete", "delete batch"} => acMade[e] > 0
      BY DEF AC!Begin
    <3>3. acMade[e] > 0 => acMade[e] \in 1..2
      BY <3>1
    <3> QED BY <3>1, <3>2, <3>3
  <2>2. op \in {"delete", "delete batch"} => <<e, acMade[e]>> \in AC!Ids
    BY <2>1 DEF AC!Ids
  <2> QED BY <2>1, <2>2 DEF AC!Idle, ThreadRecords, Tried
<1>1. acThread' = [acThread EXCEPT ![t] = rec]
  BY DEF AC!Begin, AC!Enter
<1> HIDE DEF rec
<1>2. acThread'[t] = rec
  BY <1>0, <1>1, SelfEffect DEF StoreInv
<1>3. /\ UNCHANGED <<acIndex, acFiles, acLock, acSaving, acMade, acKept, acCut, acCrossed,
                     acCrashes>>
      /\ acThread[t].op = "idle" /\ acThread[t].pc = "start"
  <2>1. acThread[t] = AC!Idle
    BY DEF AC!Begin
  <2>2. acThread[t].op = "idle" /\ acThread[t].pc = "start"
    BY <2>1, IdleFields
  <2> QED BY <2>2 DEF AC!Begin
<1>4. ~Holds(t) /\ ~Holds(t)' /\ t \notin acSaving
  BY <1>0, <1>2, <1>3 DEF Holds, StoreInv, PlaceFits
<1>5. PlaceFits(t)'
  BY <1>0, <1>2, <1>3, <1>4 DEF PlaceFits, AC!Ops, AC!LockedOps, AC!IndexOps
<1>6. Sound => CopySound(t)' /\ FilesSound'
  <2>1. CopySound(t)'
    BY <1>4 DEF CopySound, Writing
  <2>2. Sound => FilesSound'
    <3>1. \A u \in Threads \ {t} : acThread'[u] = acThread[u]
      BY <1>0, <1>1, SelfEffect DEF StoreInv
    <3> QED BY <1>3, <3>1, FilesKeep DEF Sound, StoreInv
  <2> QED BY <2>1, <2>2
<1> QED
  <2>1. StoreTypes
    BY DEF StoreInv
  <2> QED BY <1>0, <1>1, <1>3, <1>4, <1>5, <1>6, <2>1, MoveKeeps DEF StoreTypes, AC!TypeOK

(* Lemma: taking the lock, and going on without it, preserves the          *)
(* invariant.                                                              *)
LEMMA EnterStep ==
  ASSUME StoreInv, AC!AccountStoreAssumption, NEW t \in Threads,
         AC!TakeLock(t) \/ AC!GoUnlocked(t) \/ AC!LoadFile(t) \/ AC!BeginSave(t)
  PROVE  StoreInv'
<1>0. StoreTypes /\ acThread[t] \in ThreadRecords /\ PlaceFits(t) /\ AC!TypeOK
  BY DEF StoreInv, StoreTypes
<1>1. ASSUME AC!TakeLock(t) \/ AC!GoUnlocked(t) PROVE StoreInv'
  <2>1. PICK pc \in {"load", "read"} :
             /\ acThread' = [acThread EXCEPT ![t] = [acThread[t] EXCEPT !.pc = pc]]
             /\ pc = "load" <=> acThread[t].op \in {"quota", "save"}
    BY <1>1 DEF AC!TakeLock, AC!GoUnlocked, AC!Enter, AC!LockedOps, AC!IndexOps
  <2> DEFINE rec == [acThread[t] EXCEPT !.pc = pc]
  <2>2. /\ rec \in ThreadRecords /\ rec.op = acThread[t].op
        /\ rec.email = acThread[t].email /\ rec.id = acThread[t].id
        /\ rec.pc = pc
    BY <1>0 DEF ThreadRecords
  <2> HIDE DEF rec
  <2>3. acThread'[t] = rec /\ \A u \in Threads \ {t} : acThread'[u] = acThread[u]
    BY <1>0, <2>1, <2>2, SelfEffect DEF rec
  <2>4. /\ UNCHANGED <<acIndex, acFiles, acSaving, acMade, acKept, acCut, acCrossed,
                       acCrashes>>
        /\ acThread[t].pc = "start"
        /\ acThread[t].op \in AC!LockedOps \union {"add", "list", "save"}
    BY <1>1 DEF AC!TakeLock, AC!GoUnlocked
  <2>5. \/ acLock' = acLock /\ (Holds(t)' <=> Holds(t))
        \/ acLock = "none" /\ acLock' = t /\ Holds(t)'
    BY <1>1, <2>2, <2>3 DEF AC!TakeLock, AC!GoUnlocked, Holds, AC!LockedOps, AC!IndexOps
  <2>6. PlaceFits(t)'
    BY <1>0, <2>1, <2>2, <2>3, <2>4 DEF PlaceFits, AC!LockedOps, AC!IndexOps
  <2>7. Sound => CopySound(t)' /\ FilesSound'
    <3>1. CopySound(t)'
      BY <2>2, <2>3 DEF CopySound, Writing
    <3>2. Sound => FilesSound'
      BY <1>0, <2>3, <2>4, FilesKeep DEF Sound
    <3> QED BY <3>1, <3>2
  <2> QED BY <1>0, <2>1, <2>2, <2>4, <2>5, <2>6, <2>7, MoveKeeps DEF rec, StoreTypes,
             AC!TypeOK
<1>2. ASSUME AC!LoadFile(t), acThread[t].id \in acFiles PROVE StoreInv'
  <2>1. /\ acThread' = [acThread EXCEPT ![t] = [acThread[t] EXCEPT !.pc = "file"]]
        /\ UNCHANGED <<acIndex, acFiles, acLock, acSaving, acMade, acKept, acCut,
                       acCrossed>>
        /\ acThread[t].pc = "load"
    BY <1>2 DEF AC!LoadFile, AC!Enter
  <2> DEFINE rec == [acThread[t] EXCEPT !.pc = "file"]
  <2>2. /\ rec \in ThreadRecords /\ rec.op = acThread[t].op
        /\ rec.email = acThread[t].email /\ rec.id = acThread[t].id
        /\ rec.pc = "file"
    BY <1>0 DEF ThreadRecords
  <2> HIDE DEF rec
  <2>3. acThread'[t] = rec /\ \A u \in Threads \ {t} : acThread'[u] = acThread[u]
    BY <1>0, <2>1, <2>2, SelfEffect DEF rec
  <2>4. acThread[t].op \in {"quota", "save"}
    BY <1>0, <2>1 DEF PlaceFits, ThreadRecords, AC!Ops, AC!LockedOps, AC!IndexOps
  <2>5. PlaceFits(t)' /\ (Holds(t)' <=> Holds(t))
    BY <1>0, <1>2, <2>1, <2>2, <2>3, <2>4 DEF PlaceFits, Holds, AC!TypeOK
  <2>6. CopySound(t)'
    BY <2>2, <2>3, <2>4 DEF CopySound, Writing, Holds, AC!LockedOps, AC!IndexOps
  <2>7. Sound => FilesSound'
    BY <1>0, <2>1, <2>3, FilesKeep DEF Sound
  <2> QED BY <1>0, <2>1, <2>2, <2>5, <2>6, <2>7, MoveKeeps DEF rec, StoreTypes, AC!TypeOK
<1>3. ASSUME AC!LoadFile(t), acThread[t].id \notin acFiles PROVE StoreInv'
  <2>1. /\ AC!Leave(t) /\ UNCHANGED <<acIndex, acFiles, acSaving, acMade, acKept, acCut,
                                      acCrossed>>
        /\ acThread[t].pc = "load"
    BY <1>3 DEF AC!LoadFile
  <2>2. t \notin acSaving
    BY <1>0, <2>1 DEF PlaceFits
  <2> QED BY <1>0, <2>1, <2>2, LeaveKeeps DEF StoreTypes, AC!TypeOK
<1>4. ASSUME AC!BeginSave(t) PROVE StoreInv'
  <2>1. /\ UNCHANGED <<acIndex, acFiles, acLock, acThread, acMade, acKept, acCut>>
        /\ acThread[t].pc \in {"file", "index"} /\ acSaving' = acSaving \union {t}
        /\ ~acCrossed' => ~acCrossed
        /\ acCrossed' \in BOOLEAN
    BY <1>4 DEF AC!BeginSave
  <2>2. StoreTypes' /\ LockKept'
    BY <1>0, <2>1 DEF StoreInv, StoreTypes, AC!TypeOK, LockKept, Holds
  <2>3. \A u \in Threads : PlaceFits(u)'
    BY <2>1 DEF StoreInv, PlaceFits
  <2>4. Sound => Sound'
    <3>1. FilesSound => FilesSound'
      BY <2>1 DEF FilesSound, Kept, Listed, Lost, Leaving
    <3>2. \A u \in Threads : CopySound(u) => CopySound(u)'
      BY ZenonT(60), <2>1 DEF CopySound, Writing, Holds, Kept, Listed, Lost
    <3> QED BY <3>1, <3>2 DEF Sound
  <2> QED BY <2>1, <2>2, <2>3, <2>4 DEF StoreInv
<1> QED BY <1>1, <1>2, <1>3, <1>4
(* Lemma: an id is one that may be asked for.                              *)
LEMMA IdsTried == \A id \in AC!Ids : id \in Tried /\ id[1] \in Emails
BY DEF AC!Ids, Tried

(* Lemma: the ids add_account makes.                                       *)
LEMMA NewId == \A e \in Emails, n \in 1..2 : <<e, n>> \in AC!Ids /\ <<e, n>>[1] = e
BY DEF AC!Ids

(* Lemma: reading the index, and what each operation makes of it,          *)
(* preserves the invariant.                                                *)
LEMMA IndexReadStep ==
  ASSUME StoreInv, AC!AccountStoreAssumption, NEW t \in Threads, AC!ReadIndex(t)
  PROVE  StoreInv'
<1> DEFINE th == acThread[t]
<1>0. StoreTypes /\ th \in ThreadRecords /\ PlaceFits(t) /\ AC!TypeOK
  BY DEF StoreInv, StoreTypes
<1>1. /\ UNCHANGED <<acIndex, acFiles, acSaving, acCut, acCrossed>>
      /\ th.pc = "read" /\ t \notin acSaving
  BY <1>0 DEF AC!ReadIndex, PlaceFits
<1>2. th.op \in AC!IndexOps \union {"add", "list"}
  BY <1>0, <1>1 DEF PlaceFits, ThreadRecords, AC!Ops, AC!LockedOps, AC!IndexOps
<1>3. th.op # "list" => Holds(t) /\ acLock = t
  BY <1>1, <1>2 DEF Holds, AC!LockedOps, StoreInv, LockKept
<1>4. Sound => /\ Kept(acIndex) /\ Listed(acIndex)
               /\ acLock = t => Lost(acIndex) \subseteq acCut
  <2>1. ASSUME Sound, acLock = t, NEW u \in Threads, NEW id, Leaving(u, id) PROVE FALSE
    <3>1. Holds(u)
      BY <2>1 DEF Leaving, Holds, AC!LockedOps, AC!IndexOps
    <3>2. u = t
      BY <2>1, <3>1 DEF StoreInv, LockKept
    <3> QED BY <1>1, <2>1, <3>2 DEF Leaving
  <2> QED BY <2>1 DEF Sound, FilesSound
<1>5. ASSUME th.op = "upsert", AC!Named(acIndex, th.email) = {} PROVE StoreInv'
  <2> DEFINE rec == [th EXCEPT !.op = "add", !.pc = "start", !.copy = acIndex]
  <2>1. /\ acThread' = [acThread EXCEPT ![t] = rec]
        /\ UNCHANGED <<acIndex, acFiles, acSaving, acCut, acCrossed>>
        /\ acLock' = "none" /\ UNCHANGED <<acMade, acKept>>
    BY <1>5 DEF AC!ReadIndex, AC!Enter, AC!UpsertReads
  <2>2. /\ rec \in ThreadRecords /\ rec.op = "add" /\ rec.pc = "start"
        /\ rec.email = th.email
    BY <1>0, <1>5 DEF AC!TypeOK, ThreadRecords, AC!Ops
  <2> HIDE DEF rec
  <2>3. acThread'[t] = rec
    BY <1>0, <2>1, <2>2, SelfEffect
  <2>4. FilesSound => FilesSound'
    <3>1. \A u \in Threads \ {t} : acThread'[u] = acThread[u]
      BY <1>0, <2>1, <2>2, SelfEffect DEF rec
    <3> QED BY <1>0, <1>1, <2>1, <3>1, FilesKeep
  <2>5. ~Holds(t)' /\ CopySound(t)'
    BY <2>2, <2>3 DEF Holds, CopySound, Writing
  <2>6. PlaceFits(t)'
    BY <1>0, <1>1, <1>5, <2>1, <2>2, <2>3 DEF PlaceFits
  <2> QED BY <1>0, <1>3, <1>5, <2>1, <2>2, <2>4, <2>5, <2>6, MoveKeeps DEF AC!TypeOK, Sound,
             StoreTypes
<1>6. ASSUME th.op = "upsert", AC!Named(acIndex, th.email) # {} PROVE StoreInv'
  <2>0. PICK id \in AC!Ids : /\ id \in acIndex /\ id[1] = th.email
                             /\ id = CHOOSE i \in AC!Named(acIndex, th.email) : TRUE
    BY <1>0, <1>6 DEF AC!Named, AC!TypeOK
  <2> DEFINE rec == [th EXCEPT !.id = id, !.copy = acIndex, !.pc = "file"]
  <2>1. /\ acThread' = [acThread EXCEPT ![t] = rec]
        /\ UNCHANGED <<acIndex, acFiles, acLock, acSaving, acCut, acCrossed>>
        /\ UNCHANGED <<acMade, acKept>>
    BY <1>6, <2>0 DEF AC!ReadIndex, AC!Enter, AC!UpsertReads
  <2>2. /\ rec \in ThreadRecords /\ rec.op = "upsert" /\ rec.pc = "file"
        /\ rec.email = th.email /\ rec.id = id /\ rec.copy = acIndex
    BY <1>0, <1>6, <2>0, IdsTried DEF AC!TypeOK, ThreadRecords
  <2> HIDE DEF rec
  <2>3. acThread'[t] = rec
    BY <1>0, <2>1, <2>2, SelfEffect
  <2>4. Sound => FilesSound'
    <3>1. \A u \in Threads \ {t} : acThread'[u] = acThread[u]
      BY <1>0, <2>1, <2>2, SelfEffect DEF rec
    <3> QED BY <1>0, <1>1, <2>1, <3>1, FilesKeep DEF Sound
  <2>5. Sound => CopySound(t)'
    <3> SUFFICES ASSUME Sound PROVE CopySound(t)'
      OBVIOUS
    <3>1. Kept(acIndex) /\ Listed(acIndex) /\ Lost(acIndex) \subseteq acCut
      BY <1>3, <1>4, <1>6
    <3>2. Kept(acIndex)' /\ Listed(acIndex)' /\ Lost(acIndex)' \subseteq acCut'
      BY <2>1, <3>1 DEF Kept, Listed, Lost
    <3> QED BY <2>0, <2>1, <2>2, <2>3, <3>2 DEF CopySound
  <2>6. PlaceFits(t)' /\ (Holds(t)' <=> Holds(t))
    BY <1>0, <1>1, <1>6, <2>0, <2>1, <2>2, <2>3 DEF PlaceFits, Holds, AC!Ops, AC!LockedOps,
       AC!IndexOps
  <2> QED
    <3>1. /\ acIndex' \subseteq AC!Ids /\ acFiles' \subseteq AC!Ids
          /\ acKept' \subseteq Emails
          /\ acMade' \in [Emails -> 0..2] /\ acCrossed' \in BOOLEAN
          /\ acSaving' \subseteq Threads /\ acSaving' \ {t} \subseteq acSaving
      BY <1>0, <1>6, <2>1 DEF AC!TypeOK, StoreTypes
    <3>2. \/ acLock = t
          \/ acIndex' \subseteq acIndex /\ acFiles \subseteq acFiles' /\ acKept' = acKept
      BY <1>3, <1>6, <2>1
    <3> QED BY <2>1, <2>2, <2>4, <2>5, <2>6, <3>1, <3>2, MoveKeeps
<1>7. ASSUME th.op = "add", AC!Named(acIndex, th.email) # {} \/ acMade[th.email] = 2
      PROVE  StoreInv'
  <2>1. AC!Leave(t) /\ UNCHANGED <<acMade, acKept>>
    BY <1>7 DEF AC!ReadIndex, AC!AddReads, AC!AddIndex
  <2> QED BY <1>0, <1>1, <1>3, <1>7, <2>1, LeaveKeeps DEF AC!TypeOK, StoreTypes
<1>8. ASSUME th.op = "add", AC!Named(acIndex, th.email) = {}, acMade[th.email] # 2
      PROVE  StoreInv'
  <2>0. th.email \in Emails /\ acMade[th.email] + 1 \in 1..2 /\ acMade[th.email] \in 0..2
    BY <1>0, <1>8 DEF PlaceFits, AC!TypeOK
  <2> DEFINE new == <<th.email, acMade[th.email] + 1>>
  <2> DEFINE rec == [th EXCEPT !.id = new, !.copy = acIndex \union {new}, !.pc = "file"]
  <2>1. /\ acThread' = [acThread EXCEPT ![t] = rec]
        /\ UNCHANGED <<acIndex, acFiles, acLock, acSaving, acCut, acCrossed>>
        /\ acMade' = [acMade EXCEPT ![th.email] = @ + 1] /\ UNCHANGED acKept
    BY <1>8, <2>0 DEF AC!ReadIndex, AC!Enter, AC!AddReads, AC!AddIndex
  <2>2. /\ rec \in ThreadRecords /\ rec.op = "add" /\ rec.pc = "file"
        /\ rec.email = th.email /\ rec.id = new /\ rec.copy = acIndex \union {new}
        /\ new \in AC!Ids /\ new[1] = th.email
    <3>1. new \in AC!Ids /\ new[1] = th.email
      BY <2>0, NewId
    <3> HIDE DEF new
    <3>2. new \in Tried /\ acIndex \union {new} \in SUBSET AC!Ids
      BY <1>0, <3>1, IdsTried DEF AC!TypeOK
    <3> QED BY <1>0, <1>8, <3>1, <3>2 DEF ThreadRecords
  <2> HIDE DEF rec, new
  <2>3. acThread'[t] = rec
    BY <1>0, <2>1, <2>2, SelfEffect
  <2>4. Sound => FilesSound'
    <3>1. \A u \in Threads \ {t} : acThread'[u] = acThread[u]
      BY <1>0, <2>1, <2>2, SelfEffect DEF rec
    <3> QED BY <1>0, <1>1, <2>1, <3>1, FilesKeep DEF Sound
  <2>5. Sound => CopySound(t)'
    <3> SUFFICES ASSUME Sound PROVE CopySound(t)'
      OBVIOUS
    <3>1. Kept(acIndex) /\ Listed(acIndex) /\ Lost(acIndex) \subseteq acCut
      BY <1>3, <1>4, <1>8
    <3>2. Listed(acThread[t].copy)'
      BY <1>8, <2>2, <2>3, <3>1 DEF Listed, AC!Named
    <3>3. Kept(acThread[t].copy)' /\ Lost(acThread[t].copy)' \subseteq acCut' \union {new}
      BY <2>1, <2>2, <2>3, <3>1 DEF Kept, Lost
    <3> QED BY <2>1, <2>2, <2>3, <3>2, <3>3 DEF CopySound
  <2>6. PlaceFits(t)' /\ (Holds(t)' <=> Holds(t))
    BY <1>0, <1>1, <1>8, <2>0, <2>1, <2>2, <2>3 DEF PlaceFits, Holds, AC!Ops, AC!LockedOps,
       AC!IndexOps
  <2> QED
    <3>1. /\ acIndex' \subseteq AC!Ids /\ acFiles' \subseteq AC!Ids
          /\ acKept' \subseteq Emails
          /\ acMade' \in [Emails -> 0..2] /\ acCrossed' \in BOOLEAN
          /\ acSaving' \subseteq Threads /\ acSaving' \ {t} \subseteq acSaving
      BY <1>0, <1>8, <2>0, <2>1 DEF AC!TypeOK, StoreTypes
    <3>2. \/ acLock = t
          \/ acIndex' \subseteq acIndex /\ acFiles \subseteq acFiles' /\ acKept' = acKept
      BY <1>3, <1>8, <2>1
    <3> QED BY <2>1, <2>2, <2>4, <2>5, <2>6, <3>1, <3>2, MoveKeeps
<1>9. ASSUME th.op = "delete", th.id \notin acIndex PROVE StoreInv'
  <2>1. AC!Leave(t) /\ UNCHANGED <<acMade, acKept>>
    BY <1>9 DEF AC!ReadIndex, AC!DeleteReads
  <2> QED BY <1>0, <1>1, <1>3, <1>9, <2>1, LeaveKeeps DEF AC!TypeOK, StoreTypes
<1>10. ASSUME th.op \in {"delete", "delete batch"}, th.op = "delete" => th.id \in acIndex
       PROVE  StoreInv'
  <2> DEFINE rec == [th EXCEPT !.copy = acIndex \ {th.id},
                               !.pc = IF th.op = "delete" THEN "index" ELSE "remove"]
  <2>1. /\ acThread' = [acThread EXCEPT ![t] = rec]
        /\ UNCHANGED <<acIndex, acFiles, acLock, acSaving, acCut, acCrossed>>
        /\ acKept' = IF th.id \in AC!Named(acIndex, th.id[1])
                     THEN acKept \ {th.id[1]} ELSE acKept
        /\ UNCHANGED acMade
    BY <1>10 DEF AC!ReadIndex, AC!Enter, AC!DeleteReads
  <2>2. /\ rec \in ThreadRecords /\ rec.op = th.op
        /\ rec.pc = (IF th.op = "delete" THEN "index" ELSE "remove")
        /\ rec.email = th.email /\ rec.id = th.id /\ rec.copy = acIndex \ {th.id}
    BY <1>0, <1>10 DEF AC!TypeOK, ThreadRecords, AC!Ops, Tried, AC!Ids
  <2> HIDE DEF rec
  <2>3. acThread'[t] = rec
    BY <1>0, <2>1, <2>2, SelfEffect
  <2>4. Sound => FilesSound'
    <3>1. \A u \in Threads \ {t} : acThread'[u] = acThread[u]
      BY <1>0, <2>1, <2>2, SelfEffect DEF rec
    <3> QED BY <1>0, <1>1, <2>1, <3>1, FilesKeep DEF Sound
  <2>5. Sound => CopySound(t)'
    <3> SUFFICES ASSUME Sound PROVE CopySound(t)'
      OBVIOUS
    <3>1. Kept(acIndex) /\ Listed(acIndex) /\ Lost(acIndex) \subseteq acCut
      BY <1>3, <1>4, <1>10
    <3>2. th.id \in acIndex => th.id[1] \notin acKept'
      BY <2>1 DEF AC!Named
    <3>3. Listed(acThread[t].copy)' /\ Lost(acThread[t].copy)' \subseteq acCut'
      BY <2>1, <2>2, <2>3, <3>1 DEF Listed, Lost
    <3>4. Kept(acThread[t].copy)'
      <4> SUFFICES ASSUME NEW e \in acKept'
                   PROVE  \E id \in acThread'[t].copy : id[1] = e /\ id \in acFiles'
        BY DEF Kept
      <4>1. e \in acKept
        BY <2>1
      <4>2. PICK id \in acIndex : id[1] = e /\ id \in acFiles
        BY <3>1, <4>1 DEF Kept
      <4>3. id # th.id
        BY <3>2, <4>2
      <4> QED BY <2>1, <2>2, <2>3, <4>2, <4>3
    <3>5. /\ acThread'[t].op \notin {"add", "upsert"} /\ acThread'[t].id = th.id
          /\ acThread'[t].op # "delete" \/ acThread'[t].pc # "remove"
          /\ th.id \notin acThread'[t].copy
      BY <1>10, <2>2, <2>3
    <3>6. acThread'[t].id \in acIndex' => acThread'[t].id[1] \notin acKept'
      BY <2>1, <3>2, <3>5
    <3> QED BY <3>3, <3>4, <3>5, <3>6 DEF CopySound
  <2>6. PlaceFits(t)' /\ (Holds(t)' <=> Holds(t))
    BY <1>0, <1>1, <1>10, <2>1, <2>2, <2>3 DEF PlaceFits, Holds, AC!Ops, AC!LockedOps,
       AC!IndexOps
  <2> QED
    <3>1. /\ acIndex' \subseteq AC!Ids /\ acFiles' \subseteq AC!Ids
          /\ acKept' \subseteq Emails
          /\ acMade' \in [Emails -> 0..2] /\ acCrossed' \in BOOLEAN
          /\ acSaving' \subseteq Threads /\ acSaving' \ {t} \subseteq acSaving
      BY <1>0, <1>10, <2>1 DEF AC!TypeOK, StoreTypes
    <3>2. \/ acLock = t
          \/ acIndex' \subseteq acIndex /\ acFiles \subseteq acFiles' /\ acKept' = acKept
      <4>1. th.op # "list"
        BY <1>10
      <4> QED BY <1>3, <4>1
    <3> QED BY <2>1, <2>2, <2>4, <2>5, <2>6, <3>1, <3>2, MoveKeeps
<1>11. ASSUME th.op = "reindex" PROVE StoreInv'
  <2> DEFINE rec == [th EXCEPT !.copy = acIndex, !.pc = "index"]
  <2>1. /\ acThread' = [acThread EXCEPT ![t] = rec]
        /\ UNCHANGED <<acIndex, acFiles, acLock, acSaving, acCut, acCrossed>>
        /\ UNCHANGED <<acMade, acKept>>
    BY <1>11 DEF AC!ReadIndex, AC!Enter
  <2>2. /\ rec \in ThreadRecords /\ rec.op = th.op /\ rec.pc = "index"
        /\ rec.email = th.email /\ rec.id = th.id /\ rec.copy = acIndex
    BY <1>0, <1>11 DEF AC!TypeOK, ThreadRecords, AC!Ops, Tried, AC!Ids
  <2> HIDE DEF rec
  <2>3. acThread'[t] = rec
    BY <1>0, <2>1, <2>2, SelfEffect
  <2>4. Sound => FilesSound'
    <3>1. \A u \in Threads \ {t} : acThread'[u] = acThread[u]
      BY <1>0, <2>1, <2>2, SelfEffect DEF rec
    <3> QED BY <1>0, <1>1, <2>1, <3>1, FilesKeep DEF Sound
  <2>5. Sound => CopySound(t)'
    <3> SUFFICES ASSUME Sound PROVE CopySound(t)'
      OBVIOUS
    <3>1. Kept(acIndex) /\ Listed(acIndex) /\ Lost(acIndex) \subseteq acCut
      BY <1>3, <1>4, <1>11
    <3> QED BY <1>11, <2>1, <2>2, <2>3, <3>1 DEF CopySound, Writing, Kept, Listed, Lost
  <2>6. PlaceFits(t)' /\ (Holds(t)' <=> Holds(t))
    BY <1>0, <1>1, <1>11, <2>1, <2>2, <2>3 DEF PlaceFits, Holds, AC!Ops, AC!LockedOps,
       AC!IndexOps
  <2> QED
    <3>1. /\ acIndex' \subseteq AC!Ids /\ acFiles' \subseteq AC!Ids
          /\ acKept' \subseteq Emails
          /\ acMade' \in [Emails -> 0..2] /\ acCrossed' \in BOOLEAN
          /\ acSaving' \subseteq Threads /\ acSaving' \ {t} \subseteq acSaving
      BY <1>0, <1>11, <2>1 DEF AC!TypeOK, StoreTypes
    <3>2. \/ acLock = t
          \/ acIndex' \subseteq acIndex /\ acFiles \subseteq acFiles' /\ acKept' = acKept
      BY <1>3, <1>11, <2>1
    <3> QED BY <2>1, <2>2, <2>4, <2>5, <2>6, <3>1, <3>2, MoveKeeps
<1>12. ASSUME th.op = "list" PROVE StoreInv'
  <2> DEFINE rec == [th EXCEPT !.copy = acIndex, !.todo = acIndex, !.pc = "check"]
  <2>1. /\ acThread' = [acThread EXCEPT ![t] = rec]
        /\ UNCHANGED <<acIndex, acFiles, acLock, acSaving, acCut, acCrossed>>
        /\ UNCHANGED <<acMade, acKept>>
    BY <1>12 DEF AC!ReadIndex, AC!Enter
  <2>2. /\ rec \in ThreadRecords /\ rec.op = th.op /\ rec.pc = "check"
        /\ rec.email = th.email /\ rec.id = th.id /\ rec.copy = acIndex
    BY <1>0, <1>12 DEF AC!TypeOK, ThreadRecords, AC!Ops, Tried, AC!Ids
  <2> HIDE DEF rec
  <2>3. acThread'[t] = rec
    BY <1>0, <2>1, <2>2, SelfEffect
  <2>4. Sound => FilesSound'
    <3>1. \A u \in Threads \ {t} : acThread'[u] = acThread[u]
      BY <1>0, <2>1, <2>2, SelfEffect DEF rec
    <3> QED BY <1>0, <1>1, <2>1, <3>1, FilesKeep DEF Sound
  <2>5. Sound => CopySound(t)'
    BY <1>12, <2>2, <2>3 DEF CopySound, Writing, Holds, AC!LockedOps, AC!IndexOps
  <2>6. PlaceFits(t)' /\ (Holds(t)' <=> Holds(t))
    BY <1>0, <1>1, <1>12, <2>1, <2>2, <2>3 DEF PlaceFits, Holds, AC!Ops, AC!LockedOps,
       AC!IndexOps
  <2> QED
    <3>1. /\ acIndex' \subseteq AC!Ids /\ acFiles' \subseteq AC!Ids
          /\ acKept' \subseteq Emails
          /\ acMade' \in [Emails -> 0..2] /\ acCrossed' \in BOOLEAN
          /\ acSaving' \subseteq Threads /\ acSaving' \ {t} \subseteq acSaving
      BY <1>0, <1>12, <2>1 DEF AC!TypeOK, StoreTypes
    <3>2. \/ acLock = t
          \/ acIndex' \subseteq acIndex /\ acFiles \subseteq acFiles' /\ acKept' = acKept
      BY <1>3, <1>12, <2>1
    <3> QED BY <2>1, <2>2, <2>4, <2>5, <2>6, <3>1, <3>2, MoveKeeps
<1> QED BY <1>2, <1>5, <1>6, <1>7, <1>8, <1>9, <1>10, <1>11, <1>12 DEF AC!IndexOps

(* Lemma: listing looks at one file after the other and changes none.      *)
LEMMA ListCheckStep ==
  ASSUME StoreInv, AC!AccountStoreAssumption, NEW t \in Threads,
         AC!Checked(t) \/ \E id \in AC!Ids : AC!Check(t, id)
  PROVE  StoreInv'
<1> DEFINE th == acThread[t]
<1>0. StoreTypes /\ th \in ThreadRecords /\ PlaceFits(t) /\ AC!TypeOK
  BY DEF StoreInv, StoreTypes
<1>1. /\ UNCHANGED <<acIndex, acFiles, acSaving, acMade, acKept, acCut, acCrossed>>
      /\ th.pc = "check"
  BY DEF AC!Check, AC!Checked
<1>2. th.op = "list" /\ t \notin acSaving
  BY <1>0, <1>1 DEF PlaceFits, ThreadRecords, AC!Ops, AC!LockedOps, AC!IndexOps
<1>3. ASSUME NEW rec \in ThreadRecords, rec.op = "list", rec.pc \in {"check", "index"},
             rec.email = th.email,
             acThread' = [acThread EXCEPT ![t] = rec], acLock' = acLock
      PROVE  StoreInv'
  <2>1. acThread'[t] = rec /\ \A u \in Threads \ {t} : acThread'[u] = acThread[u]
    BY <1>0, <1>3, SelfEffect
  <2>2. ~Holds(t) /\ ~Holds(t)'
    BY <1>2, <1>3, <2>1 DEF Holds, AC!LockedOps, AC!IndexOps
  <2>3. PlaceFits(t)' /\ CopySound(t)'
    BY <1>0, <1>1, <1>2, <1>3, <2>1, <2>2 DEF PlaceFits, CopySound, Writing
  <2>4. Sound => FilesSound'
    BY <1>0, <1>1, <2>1, FilesKeep DEF Sound
  <2>5. /\ acIndex' \subseteq AC!Ids /\ acFiles' \subseteq AC!Ids
        /\ acKept' \subseteq Emails
        /\ acMade' \in [Emails -> 0..2] /\ acCrossed' \in BOOLEAN
        /\ acSaving' \subseteq Threads /\ acSaving' \ {t} \subseteq acSaving
    BY <1>0, <1>1 DEF AC!TypeOK, StoreTypes
  <2> QED BY <1>1, <1>3, <2>2, <2>3, <2>4, <2>5, MoveKeeps
<1>4. ASSUME NEW id \in AC!Ids, AC!Check(t, id) PROVE StoreInv'
  <2> DEFINE rec == [th EXCEPT !.todo = @ \ {id},
                               !.bad = IF id \in acFiles THEN @ ELSE @ \union {id}]
  <2>1. acThread' = [acThread EXCEPT ![t] = rec] /\ acLock' = acLock
    BY <1>4 DEF AC!Check, AC!Enter
  <2>2. rec \in ThreadRecords /\ rec.op = "list" /\ rec.pc = "check" /\ rec.email = th.email
    BY <1>0, <1>1, <1>2 DEF ThreadRecords
  <2> QED BY <1>3, <2>1, <2>2
<1>5. ASSUME AC!Checked(t), th.bad # {} PROVE StoreInv'
  <2> DEFINE rec == [th EXCEPT !.copy = @ \ th.bad, !.pc = "index"]
  <2>1. acThread' = [acThread EXCEPT ![t] = rec] /\ acLock' = acLock
    BY <1>5 DEF AC!Checked, AC!Enter
  <2>2. rec \in ThreadRecords /\ rec.op = "list" /\ rec.pc = "index" /\ rec.email = th.email
    BY <1>0, <1>1, <1>2 DEF ThreadRecords
  <2> QED BY <1>3, <2>1, <2>2
<1>6. ASSUME AC!Checked(t), th.bad = {} PROVE StoreInv'
  <2>1. AC!Leave(t)
    BY <1>6 DEF AC!Checked
  <2>2. /\ acIndex' \subseteq AC!Ids /\ acFiles' \subseteq AC!Ids
        /\ acKept' \subseteq Emails
        /\ acMade' \in [Emails -> 0..2] /\ acCrossed' \in BOOLEAN
        /\ acSaving' \subseteq acSaving \ {t}
    BY <1>0, <1>1, <1>2 DEF AC!TypeOK, StoreTypes
  <2> QED BY <1>1, <2>1, <2>2, LeaveKeeps
<1> QED BY <1>4, <1>5, <1>6

(* Lemma: the end of writing an account file preserves the invariant.      *)
LEMMA EndFileStep ==
  ASSUME StoreInv, AC!AccountStoreAssumption, NEW t \in Threads, AC!EndSaveFile(t)
  PROVE  StoreInv'
<1> DEFINE th == acThread[t]
<1>0. StoreTypes /\ th \in ThreadRecords /\ PlaceFits(t) /\ AC!TypeOK
  BY DEF StoreInv, StoreTypes
<1>1. /\ UNCHANGED <<acIndex, acMade, acKept, acCut>>
      /\ th.pc = "file" /\ t \in acSaving /\ acSaving' = acSaving \ {t}
      /\ th.id \in AC!Ids
  BY <1>0 DEF AC!EndSaveFile, PlaceFits
<1>2. /\ acFiles' \subseteq AC!Ids /\ acCrossed' \in BOOLEAN
      /\ ~acCrossed' => ~acCrossed /\ acFiles' = acFiles \union {th.id}
  <2>1. acFiles' \in {acFiles \union {th.id}} \union (IF acCrossed THEN {acFiles \ {th.id}} ELSE {})
    BY DEF AC!EndSaveFile
  <2>2. acCrossed' = (acCrossed \/ (th.op = "save" /\ th.id \notin acIndex))
    BY DEF AC!EndSaveFile
  <2> QED BY <1>0, <1>1, <2>1, <2>2 DEF AC!TypeOK
<1>3. /\ acIndex' \subseteq AC!Ids /\ acKept' \subseteq Emails
      /\ acMade' \in [Emails -> 0..2] /\ acSaving' \subseteq acSaving \ {t}
      /\ acSaving' \subseteq Threads
  BY <1>0, <1>1 DEF AC!TypeOK
<1>4. ASSUME th.op \in {"add", "upsert"} PROVE StoreInv'
  <2> DEFINE rec == [th EXCEPT !.pc = "index"]
  <2>1. acThread' = [acThread EXCEPT ![t] = rec] /\ acLock' = acLock
    BY <1>4 DEF AC!EndSaveFile, AC!Enter
  <2>2. /\ rec \in ThreadRecords /\ rec.op = th.op /\ rec.pc = "index"
        /\ rec.email = th.email
        /\ rec.id = th.id /\ rec.copy = th.copy
    BY <1>0 DEF ThreadRecords
  <2> HIDE DEF rec
  <2>3. acThread'[t] = rec /\ \A u \in Threads \ {t} : acThread'[u] = acThread[u]
    BY <1>0, <2>1, <2>2, SelfEffect
  <2>4. Holds(t) /\ Holds(t)'
    BY <1>1, <1>4, <2>2, <2>3 DEF Holds, AC!LockedOps, AC!IndexOps
  <2>5. PlaceFits(t)'
    BY <1>0, <1>4, <2>2, <2>3 DEF PlaceFits
  <2>6. ~acCrossed' /\ Sound => FilesSound'
    BY <1>0, <1>1, <1>2, <2>3, FilesKeep DEF Sound
  <2>7. ASSUME ~acCrossed', Sound PROVE CopySound(t)'
    <3>1. CopySound(t) /\ Writing(t)
      BY <1>1, <1>4, <2>4, <2>7 DEF Sound, Writing
    <3>2. Listed(th.copy) /\ Kept(th.copy) /\ Lost(th.copy) \subseteq acCut \union {th.id}
      BY <1>1, <1>4, <3>1 DEF CopySound
    <3>3. th.id \in th.copy /\ th.id[1] = th.email
      BY <1>1, <1>4, <3>1 DEF CopySound
    <3>4. /\ Listed(acThread[t].copy)' /\ Kept(acThread[t].copy)'
          /\ Lost(acThread[t].copy)' \subseteq acCut'
      BY <1>1, <1>2, <2>2, <2>3, <2>7, <3>2 DEF Listed, Kept, Lost
    <3>5. th.id \in acFiles'
      BY <1>2, <2>7
    <3> QED BY <1>4, <2>2, <2>3, <3>3, <3>4, <3>5 DEF CopySound
  <2>8. acLock = t
    BY <2>4 DEF StoreInv, LockKept
  <2> QED BY <1>1, <1>2, <1>3, <2>1, <2>2, <2>4, <2>5, <2>6, <2>7, <2>8, MoveKeeps
<1>5. ASSUME th.op \notin {"add", "upsert"} PROVE StoreInv'
  <2>1. AC!Leave(t)
    BY <1>5 DEF AC!EndSaveFile
  <2>2. acFiles \subseteq acFiles \union {th.id}
    OBVIOUS
  <2> QED BY <1>1, <1>2, <1>3, <2>1, <2>2, LeaveKeeps
<1> QED BY <1>4, <1>5

(* Lemma: the end of writing the index preserves the invariant.            *)
LEMMA EndIndexStep ==
  ASSUME StoreInv, AC!AccountStoreAssumption, NEW t \in Threads, AC!EndSaveIndex(t)
  PROVE  StoreInv'
<1> DEFINE th == acThread[t]
<1>0. StoreTypes /\ th \in ThreadRecords /\ PlaceFits(t) /\ AC!TypeOK
  BY DEF StoreInv, StoreTypes
<1>1. /\ UNCHANGED <<acFiles, acMade, acCut>>
      /\ th.pc = "index" /\ t \in acSaving /\ acSaving' = acSaving \ {t}
      /\ acIndex' = th.copy
      /\ acKept' = IF th.op \in {"add", "upsert"} THEN acKept \union {th.email} ELSE acKept
  BY DEF AC!EndSaveIndex
<1>2. acCrossed' = (acCrossed \/ (/\ th.op = "list"
                                 /\ \/ acIndex \ th.bad # th.copy
                                    \/ th.bad \intersect acFiles # {}))
  BY DEF AC!EndSaveIndex
<1>3. th.op \in AC!IndexOps \union {"add", "list"}
  BY <1>0, <1>1 DEF PlaceFits, ThreadRecords, AC!Ops, AC!LockedOps, AC!IndexOps
<1>4. th.op # "list" => Holds(t) /\ acLock = t
  BY <1>1, <1>3 DEF Holds, AC!LockedOps, StoreInv, LockKept
<1>5. /\ acIndex' \subseteq AC!Ids /\ acFiles' \subseteq AC!Ids /\ acKept' \subseteq Emails
      /\ acMade' \in [Emails -> 0..2] /\ acCrossed' \in BOOLEAN
      /\ acSaving' \subseteq acSaving \ {t} /\ acSaving' \subseteq Threads
  <2>1. th.copy \subseteq AC!Ids /\ (th.op \in {"add", "upsert"} => th.email \in Emails)
    BY <1>0 DEF ThreadRecords, PlaceFits
  <2> QED BY <1>0, <1>1, <1>2, <2>1 DEF AC!TypeOK, StoreTypes
<1>6. \A u \in Threads \ {t} : acThread'[u] = acThread[u]
  BY <1>0 DEF AC!EndSaveIndex, AC!Leave, AC!Enter, StoreTypes
<1>7. ASSUME Sound, th.op # "list"
      PROVE  FilesSound' /\ (th.op = "delete" => th.id \notin acIndex')
  <2>1. CopySound(t) /\ Writing(t)
    BY <1>1, <1>3, <1>4, <1>7 DEF Sound, Writing, AC!IndexOps
  <2>2. /\ Listed(th.copy) /\ Kept(th.copy) /\ Lost(th.copy) \subseteq acCut
        /\ th.op \in {"add", "upsert"} =>
               th.id \in th.copy /\ th.id[1] = th.email /\ th.id \in acFiles
        /\ th.op = "delete" => th.id \notin th.copy
    BY <1>1, <2>1 DEF CopySound
  <2>3. Listed(acIndex)' /\ Lost(acIndex)' \subseteq acCut'
    BY <1>1, <2>2 DEF Listed, Lost
  <2>4. Kept(acIndex)'
    BY <1>1, <2>2 DEF Kept
  <2> QED BY <1>1, <2>2, <2>3, <2>4 DEF FilesSound
<1>8. ASSUME ~acCrossed', Sound, th.op = "list"
      PROVE  FilesSound' /\ acIndex' \subseteq acIndex
  <2>1. acIndex' = acIndex \ th.bad /\ th.bad \intersect acFiles = {} /\ acKept' = acKept
    BY <1>1, <1>2, <1>8
  <2>2. Listed(acIndex)' /\ Kept(acIndex)' /\ Lost(acIndex)' \subseteq Lost(acIndex)
    BY <1>1, <1>8, <2>1 DEF Sound, FilesSound, Listed, Kept, Lost
  <2>3. \A id : \A u \in Threads : Leaving(u, id) => Leaving(u, id)'
    BY <1>6, <1>8 DEF Leaving
  <2> QED BY <1>1, <1>8, <2>1, <2>2, <2>3 DEF Sound, FilesSound
<1>9. ASSUME th.op # "delete" PROVE StoreInv'
  <2>1. AC!Leave(t)
    BY <1>9 DEF AC!EndSaveIndex
  <2>2. th.op = "list" => acKept' = acKept
    BY <1>1
  <2> QED BY <1>1, <1>2, <1>4, <1>5, <1>7, <1>8, <2>1, <2>2, LeaveKeeps
<1>10. ASSUME th.op = "delete" PROVE StoreInv'
  <2> DEFINE rec == [th EXCEPT !.pc = "remove"]
  <2>1. acThread' = [acThread EXCEPT ![t] = rec] /\ acLock' = acLock
    BY <1>10 DEF AC!EndSaveIndex, AC!Enter
  <2>2. /\ rec \in ThreadRecords /\ rec.op = "delete" /\ rec.pc = "remove"
        /\ rec.email = th.email
        /\ rec.id = th.id /\ rec.copy = th.copy
    BY <1>0, <1>10 DEF ThreadRecords
  <2> HIDE DEF rec
  <2>3. acThread'[t] = rec
    BY <1>0, <2>1, <2>2, SelfEffect
  <2>4. Holds(t)'
    BY <2>2, <2>3 DEF Holds, AC!LockedOps, AC!IndexOps
  <2>5. PlaceFits(t)'
    BY <1>0, <1>1, <1>10, <2>2, <2>3 DEF PlaceFits
  <2>6. Sound => CopySound(t)'
    <3> SUFFICES ASSUME Sound PROVE CopySound(t)'
      OBVIOUS
    <3>1. th.id \notin acIndex' /\ th.id \notin th.copy
      BY <1>1, <1>7, <1>10
    <3>2. Lost(th.copy) \subseteq acCut
      BY <1>1, <1>4, <1>10 DEF Sound, CopySound, Writing
    <3>3. Lost(acThread[t].copy)' \subseteq acCut'
      BY <1>1, <2>2, <2>3, <3>2 DEF Lost
    <3> QED BY <2>2, <2>3, <3>1, <3>3 DEF CopySound
  <2> QED BY <1>1, <1>2, <1>4, <1>5, <1>7, <1>10, <2>1, <2>2, <2>4, <2>5, <2>6, MoveKeeps
<1> QED BY <1>9, <1>10

(* Lemma: removing a file preserves the invariant: the index lost the      *)
(* entry before, or the batch is about to write it.                        *)
LEMMA RemoveStep ==
  ASSUME StoreInv, AC!AccountStoreAssumption, NEW t \in Threads, AC!RemoveFile(t)
  PROVE  StoreInv'
<1> DEFINE th == acThread[t]
<1>0. StoreTypes /\ th \in ThreadRecords /\ PlaceFits(t) /\ AC!TypeOK
  BY DEF StoreInv, StoreTypes
<1>1. /\ UNCHANGED <<acIndex, acSaving, acMade, acKept, acCut, acCrossed>>
      /\ th.pc = "remove" /\ acFiles' = acFiles \ {th.id}
  BY DEF AC!RemoveFile
<1>2. th.op \in {"delete", "delete batch"} /\ t \notin acSaving
  BY <1>0, <1>1 DEF PlaceFits, ThreadRecords, AC!Ops, AC!LockedOps, AC!IndexOps
<1>3. Holds(t) /\ acLock = t
  BY <1>1, <1>2 DEF Holds, AC!LockedOps, AC!IndexOps, StoreInv, LockKept
<1>4. /\ acIndex' \subseteq AC!Ids /\ acFiles' \subseteq AC!Ids /\ acKept' \subseteq Emails
      /\ acMade' \in [Emails -> 0..2] /\ acCrossed' \in BOOLEAN
      /\ acSaving' \subseteq acSaving \ {t} /\ acSaving' \subseteq Threads
  BY <1>0, <1>1, <1>2 DEF AC!TypeOK, StoreTypes
<1>5. ASSUME Sound
      PROVE  /\ Kept(acIndex)' /\ Listed(acIndex)'
             /\ Lost(acIndex)' \subseteq acCut' \union {th.id}
             /\ th.op = "delete" => th.id \notin acIndex'
  <2>1. CopySound(t) /\ Writing(t)
    BY <1>1, <1>2, <1>3, <1>5 DEF Sound, Writing
  <2>2. /\ th.op = "delete" => th.id \notin acIndex
        /\ th.id \in acIndex => th.id[1] \notin acKept
    BY <1>1, <1>2, <2>1 DEF CopySound
  <2>3. ASSUME NEW u \in Threads, NEW id, Leaving(u, id) PROVE FALSE
    <3>1. Holds(u)
      BY <2>3 DEF Leaving, Holds, AC!LockedOps, AC!IndexOps
    <3>2. u = t
      BY <1>3, <3>1 DEF StoreInv, LockKept
    <3> QED BY <1>1, <2>3, <3>2 DEF Leaving
  <2>4. Lost(acIndex) \subseteq acCut /\ Listed(acIndex) /\ Kept(acIndex)
    BY <1>5, <2>3 DEF Sound, FilesSound
  <2>5. Kept(acIndex)'
    <3> SUFFICES ASSUME NEW e \in acKept'
                 PROVE  \E id \in acIndex' : id[1] = e /\ id \in acFiles'
      BY DEF Kept
    <3>1. PICK id \in acIndex : id[1] = e /\ id \in acFiles
      BY <1>1, <2>4 DEF Kept
    <3>2. id # th.id
      BY <1>1, <2>2, <3>1
    <3> QED BY <1>1, <3>1, <3>2
  <2> QED BY <1>1, <2>2, <2>4, <2>5 DEF Listed, Lost
<1>6. ASSUME th.op = "delete" PROVE StoreInv'
  <2>1. AC!Leave(t)
    BY <1>6 DEF AC!RemoveFile
  <2>2. Sound => FilesSound'
    BY <1>5, <1>6 DEF FilesSound, Lost
  <2> QED BY <1>1, <1>3, <1>4, <2>1, <2>2, LeaveKeeps
<1>7. ASSUME th.op = "delete batch" PROVE StoreInv'
  <2> DEFINE rec == [th EXCEPT !.pc = "index"]
  <2>1. acThread' = [acThread EXCEPT ![t] = rec] /\ acLock' = acLock
    BY <1>7 DEF AC!RemoveFile, AC!Enter
  <2>2. /\ rec \in ThreadRecords /\ rec.op = "delete batch" /\ rec.pc = "index"
        /\ rec.email = th.email
        /\ rec.id = th.id /\ rec.copy = th.copy
    BY <1>0, <1>7 DEF ThreadRecords
  <2> HIDE DEF rec
  <2>3. acThread'[t] = rec
    BY <1>0, <2>1, <2>2, SelfEffect
  <2>4. Holds(t)' /\ PlaceFits(t)'
    BY <1>0, <1>1, <1>2, <1>7, <2>2, <2>3 DEF Holds, PlaceFits, AC!LockedOps, AC!IndexOps
  <2>5. \A id : id = th.id => Leaving(t, id)'
    BY <2>2, <2>3 DEF Leaving
  <2>6. Sound => FilesSound'
    BY <1>5, <2>5 DEF FilesSound
  <2>7. Sound => CopySound(t)'
    <3> SUFFICES ASSUME Sound PROVE CopySound(t)'
      OBVIOUS
    <3>1. CopySound(t) /\ Writing(t)
      BY <1>1, <1>2, <1>3 DEF Sound, Writing
    <3>2. /\ Listed(th.copy) /\ Kept(th.copy) /\ Lost(th.copy) \subseteq acCut
          /\ th.id \notin th.copy /\ (th.id \in acIndex => th.id[1] \notin acKept)
      BY <1>1, <1>7, <3>1 DEF CopySound
    <3>3. /\ Listed(acThread[t].copy)' /\ Kept(acThread[t].copy)'
          /\ Lost(acThread[t].copy)' \subseteq acCut'
      <4>1. acThread'[t].copy = th.copy /\ \A id \in th.copy : id \in acFiles => id \in acFiles'
        BY <1>1, <2>2, <2>3, <3>2
      <4>2. Listed(acThread[t].copy)' /\ Lost(acThread[t].copy)' \subseteq acCut'
        BY <1>1, <3>2, <4>1 DEF Listed, Lost
      <4>3. Kept(acThread[t].copy)'
        BY <1>1, <3>2, <4>1 DEF Kept
      <4> QED BY <4>2, <4>3
    <3>4. /\ acThread'[t].op = "delete batch" /\ acThread'[t].id \notin acThread'[t].copy
          /\ acThread'[t].id \in acIndex' => acThread'[t].id[1] \notin acKept'
      BY <1>1, <2>2, <2>3, <3>2
    <3> QED BY <3>3, <3>4 DEF CopySound
  <2> QED BY <1>1, <1>3, <1>4, <2>1, <2>2, <2>4, <2>6, <2>7, MoveKeeps
<1> QED BY <1>2, <1>6, <1>7

(* Lemma: a crash keeps the files and makes cut what was half done.        *)
LEMMA StoreCrashStep ==
  ASSUME StoreInv, AC!AccountStoreAssumption, AC!Crash
  PROVE  StoreInv'
<1>0. StoreTypes /\ AC!TypeOK
  BY DEF StoreInv, StoreTypes
<1>1. /\ acThread' = [t \in Threads |-> AC!Idle] /\ acLock' = "none" /\ acSaving' = {}
      /\ UNCHANGED <<acIndex, acFiles, acMade, acKept, acCrossed>>
  BY DEF AC!Crash
<1>2. \A t \in Threads : /\ acThread'[t] = AC!Idle
                         /\ acThread'[t].op = "idle" /\ acThread'[t].pc = "start"
  BY <1>1, IdleFields
<1>3. /\ \A t \in Threads : \A id : Leaving(t, id) => id \in acCut'
      /\ acCut \subseteq acCut' /\ acCut' \subseteq AC!Ids
  <2> DEFINE cut == {u \in Threads : acThread[u].op = "delete batch" /\ acThread[u].pc = "index"}
  <2>1. acCut' = acCut \union {acThread[t].id : t \in cut}
    BY DEF AC!Crash
  <2>2. \A t \in cut : acThread[t].id \in AC!Ids
    BY DEF StoreInv, PlaceFits
  <2>3. \A t \in Threads : \A id : Leaving(t, id) => t \in cut /\ acThread[t].id = id
    BY DEF Leaving
  <2> HIDE DEF cut
  <2> QED BY <1>0, <2>1, <2>2, <2>3 DEF AC!TypeOK
<1>4. StoreTypes'
  <2>1. acThread' \in [Threads -> ThreadRecords]
    BY <1>1, IdleFields
  <2>2. \A t \in Threads : acThread'[t] \in ThreadRecords
    BY <2>1
  <2> QED BY <1>0, <1>1, <1>3, <2>1, <2>2 DEF StoreTypes, AC!TypeOK, ThreadRecords
<1>5. LockKept'
  BY <1>1, <1>2 DEF LockKept, Holds, AC!AccountStoreAssumption
<1>6. \A t \in Threads : PlaceFits(t)' /\ CopySound(t)'
  BY <1>1, <1>2 DEF PlaceFits, CopySound, Writing, Holds
<1>7. ASSUME Sound PROVE FilesSound'
  <2>1. Kept(acIndex)' /\ Listed(acIndex)' /\ Lost(acIndex)' \subseteq Lost(acIndex)
    BY <1>1, <1>7 DEF Sound, FilesSound, Kept, Listed, Lost
  <2> QED BY <1>3, <1>7, <2>1 DEF Sound, FilesSound
<1>8. acCrossed' = acCrossed
  BY <1>1
<1> QED BY <1>4, <1>5, <1>6, <1>7, <1>8 DEF StoreInv, Sound

(* Lemma: every step of the store preserves the invariant.                 *)
LEMMA StoreStep ==
  ASSUME AC!AccountStoreAssumption, StoreInv, [AC!Next]_(AC!acVars) PROVE StoreInv'
<1>1. ASSUME NEW t \in Threads,
             \/ \E op \in AC!Ops, e \in Emails : AC!Begin(t, op, e)
             \/ AC!TakeLock(t) \/ AC!GoUnlocked(t) \/ AC!ReadIndex(t)
             \/ \E id \in AC!Ids : AC!Check(t, id)
             \/ AC!Checked(t) \/ AC!LoadFile(t)
             \/ AC!BeginSave(t) \/ AC!EndSaveFile(t) \/ AC!EndSaveIndex(t) \/ AC!RemoveFile(t)
      PROVE  StoreInv'
  BY <1>1, StoreBegins, EnterStep, IndexReadStep, ListCheckStep, EndFileStep, EndIndexStep,
     RemoveStep
<1>2. ASSUME UNCHANGED AC!acVars PROVE StoreInv'
  <2>1. UNCHANGED <<acIndex, acFiles, acLock, acThread, acSaving, acMade, acKept, acCut,
                    acCrossed>>
    BY <1>2 DEF AC!acVars
  <2>2. StoreTypes' /\ LockKept'
    BY <2>1 DEF StoreInv, StoreTypes, AC!TypeOK, LockKept, Holds
  <2>3. \A t \in Threads : PlaceFits(t)'
    BY <2>1 DEF StoreInv, PlaceFits
  <2>4. FilesSound => FilesSound'
    BY <2>1 DEF FilesSound, Kept, Listed, Lost, Leaving
  <2>5. \A u \in Threads : CopySound(u) => CopySound(u)'
    BY ZenonT(60), <2>1 DEF CopySound, Writing, Holds, Kept, Listed, Lost
  <2> QED BY <2>1, <2>2, <2>3, <2>4, <2>5 DEF StoreInv, Sound
<1>3. AC!Rest => UNCHANGED AC!acVars
  BY DEF AC!Rest
<1> QED BY <1>1, <1>2, <1>3, StoreCrashStep DEF AC!Next

(* Theorem: the invariant of the store holds in every reachable state.     *)
THEOREM StoreInvariance == ASSUME AC!AccountStoreAssumption PROVE AC!Spec => []StoreInv
<1>1. AC!Init => StoreInv
  BY StoreInit
<1>2. StoreInv /\ [AC!Next]_(AC!acVars) => StoreInv'
  BY StoreStep
<1> QED BY <1>1, <1>2, PTL DEF AC!Spec

(* Theorem: the store keeps to its types for any threads and e-mails.      *)
THEOREM StoreTypeCorrect == ASSUME AC!AccountStoreAssumption PROVE AC!Spec => []AC!TypeOK
<1>1. StoreInv => AC!TypeOK
  BY DEF StoreInv, StoreTypes
<1> QED BY <1>1, StoreInvariance, PTL

(* Theorem: until an unlocked writer crossed another, an account that was  *)
(* added stays listed, under one id and with a file that loads, until its  *)
(* deletion begins, and an entry without a file is what a crash left of a  *)
(* batch deletion, for any threads, e-mails, operations and crashes        *)
(* (account/crud.rs, index.rs).                                            *)
THEOREM StoreAlwaysSound ==
  ASSUME AC!AccountStoreAssumption
  PROVE  AC!Spec => []AC!StoreSound
<1>1. ASSUME StoreInv PROVE AC!StoreSound
  <2> SUFFICES ASSUME ~acCrossed
               PROVE /\ \A e \in acKept : \E id \in AC!Named(acIndex, e) : id \in acFiles
                     /\ \A e \in Emails : AC!Cardinality(AC!Named(acIndex, e)) <= 1
                     /\ acLock = "none" => acIndex \ acFiles \subseteq acCut
    BY DEF AC!StoreSound
  <2>1. Sound
    BY <1>1 DEF StoreInv
  <2>2. \A e \in acKept : \E id \in AC!Named(acIndex, e) : id \in acFiles
    BY <2>1 DEF Sound, FilesSound, Kept, AC!Named
  <2>3. ASSUME NEW e \in Emails PROVE AC!Cardinality(AC!Named(acIndex, e)) <= 1
    <3>1. AC!Named(acIndex, e) = {} \/ \E id : AC!Named(acIndex, e) = {id}
      BY ZenonT(60), <2>1 DEF Sound, FilesSound, Listed, AC!Named
    <3>2. \A S : S = {} \/ (\E id : S = {id}) => Cardinality(S) <= 1
      <4> SUFFICES ASSUME NEW S, S = {} \/ \E id : S = {id} PROVE Cardinality(S) <= 1
        OBVIOUS
      <4>1. Cardinality(S) = 0 \/ Cardinality(S) = 1
        BY FS_EmptySet, FS_Singleton
      <4> QED BY <4>1
    <3> QED BY <3>1, <3>2 DEF AC!Cardinality, Cardinality, AC!IsFiniteSet, IsFiniteSet
  <2>4. ASSUME acLock = "none" PROVE acIndex \ acFiles \subseteq acCut
    <3>1. \A t \in Threads : ~Holds(t)
      BY <1>1, <2>4 DEF StoreInv, LockKept, AC!AccountStoreAssumption
    <3>2. \A t \in Threads : \A id : ~Leaving(t, id)
      BY <3>1 DEF Leaving, Holds, AC!LockedOps, AC!IndexOps
    <3> QED BY <2>1, <3>2 DEF Sound, FilesSound, Lost
  <2> QED BY <2>2, <2>3, <2>4
<1> QED BY <1>1, StoreInvariance, PTL

-------------------------------------------------------------------------------
(* Migration: instances copy the files of the index to rows, once. Each    *)
(* e-mail of the index is behind, at or ahead of the run; a row behind it  *)
(* is done unless it failed or a service touched it.                       *)

(* Where a run handles an entry of the index.                              *)
Handling == {"update", "create", "read", "flags"}
(* Where it is through and settles the current account.                    *)
Settling == {"current", "mark"}
(* What a run may be doing.                                                *)
RunRecords == [pc : MG!Idle \union {"check", "next"} \union Handling \union Settling,
               at : 1..(Len(IndexFiles) + 1), row : MG!RowType, cred : 0..MaxCred,
               stats : [MG!Counts -> 0..Len(IndexFiles)]]
(* How many entries a run has counted.                                     *)
Total(stats) == stats["migrated"] + stats["updated"] + stats["skipped"] + stats["failed"]
(* An e-mail whose row neither failed nor was changed by a service.        *)
Clean(e) == e \notin mgFault /\ e \notin mgTouched

(* The row of an entry has the flags and the credentials of its file.      *)
Done(n) == IndexFiles[n].kind = "ok" /\ Clean(IndexFiles[n].email) =>
               /\ mgRow[IndexFiles[n].email].id # 0
               /\ mgRow[IndexFiles[n].email].off = IndexFiles[n].off
               /\ mgRow[IndexFiles[n].email].cred = mgFile[IndexFiles[n].email]
(* A run has counted each entry behind it once.                            *)
CountsKept(i) ==
    /\ mgRun[i].pc \in {"next"} \union Handling => Total(mgRun[i].stats) = mgRun[i].at - 1
    /\ mgRun[i].pc \in Handling => mgRun[i].at <= Len(IndexFiles) /\ MG!File(i).kind = "ok"
    /\ mgRun[i].pc \in Settling =>
           Total(mgRun[i].stats) = Len(IndexFiles) /\ mgRun[i].at = Len(IndexFiles) + 1
(* The clean entries behind a run are done.                                *)
BehindDone(i) == mgRun[i].pc \in {"next"} \union Handling \union Settling =>
                     \A n \in DOMAIN IndexFiles : n < mgRun[i].at => Done(n)
(* What a run read of a row still fits it, unless a service touched it.    *)
RowRead(i) ==
    /\ mgRun[i].pc \in {"update", "read", "flags", "current"} => mgRun[i].row.id # 0
    /\ mgRun[i].pc \in {"update", "create"} /\ MG!Email(i) \notin mgTouched =>
           mgRun[i].cred = mgFile[MG!Email(i)]
    /\ mgRun[i].pc = "flags" /\ MG!Email(i) \notin mgTouched =>
           mgRun[i].row.cred = mgFile[MG!Email(i)]
    /\ mgRun[i].pc = "current" =>
           /\ CurrentEmail \in MG!FileEmails
           /\ CurrentEmail \notin mgTouched => mgRow[CurrentEmail].id = mgRun[i].row.id
(* What holds of each run.                                                 *)
RunSound(i) == CountsKept(i) /\ BehindDone(i) /\ RowRead(i)
(* A row that no service touched has the credentials of the file.          *)
RenewalsKept ==
    \A e \in MG!FileEmails : e \notin mgTouched /\ mgRow[e].id # 0 => mgRow[e].cred = mgFile[e]
(* The current account that was set is the one of the index, until a user  *)
(* switches.                                                               *)
CurrentKept ==
    mgCurrent # 0 /\ ~mgSwitched =>
        /\ CurrentEmail \in MG!FileEmails
        /\ CurrentEmail \notin mgTouched => mgCurrent = mgRow[CurrentEmail].id
(* The edits made after the migration stay, and there are none while a run *)
(* is at work.                                                             *)
SafeKept == /\ MG!EditsStay
            /\ (\E e \in MG!FileEmails : mgWant[e].safe) =>
                   mgMarker /\ \A i \in Instances : mgRun[i].pc \in MG!Idle \union {"check"}
(* The inductive invariant of the migration.                               *)
MigrationInv == /\ MG!TypeOK /\ \A i \in Instances : RunSound(i)
                /\ RenewalsKept /\ CurrentKept /\ SafeKept
                /\ mgMarker => \A n \in DOMAIN IndexFiles : Done(n)

(* Lemma: an index that nobody has migrated satisfies the invariant.       *)
LEMMA MigrationInit ==
  ASSUME MG!MigrationAssumption, MG!Init PROVE MigrationInv
<1>1. /\ MG!NoRow \in MG!RowType /\ MG!NoRow.id = 0
      /\ MG!Stats \in [MG!Counts -> 0..Len(IndexFiles)]
      /\ 0 \in 0..MaxIds /\ 0 \in 0..MaxCred /\ 0 \in 0..MigrationCrashes
  BY DEF MG!MigrationAssumption, MG!NoRow, MG!RowType, MG!Stats
<1>2. MG!Down \in RunRecords /\ MG!Down.pc = "down"
  BY <1>1 DEF MG!Down, RunRecords, MG!Idle, MG!MigrationAssumption
<1>3. MG!NoWant \in [safe : BOOLEAN, row : MG!RowType] /\ MG!NoWant.safe = FALSE
  BY <1>1 DEF MG!NoWant
<1>4. MG!TypeOK
  <2>1. mgRun \in [Instances -> RunRecords]
    BY <1>2 DEF MG!Init
  <2> QED BY <1>1, <1>3, <2>1 DEF MG!Init, MG!TypeOK, RunRecords, Handling, Settling
<1>5. \A i \in Instances : RunSound(i)
  BY <1>2 DEF MG!Init, RunSound, CountsKept, BehindDone, RowRead, Handling, Settling
<1>6. RenewalsKept /\ CurrentKept /\ SafeKept /\ ~mgMarker
  BY <1>1, <1>3 DEF MG!Init, RenewalsKept, CurrentKept, SafeKept, MG!EditsStay
<1> QED BY <1>4, <1>5, <1>6 DEF MigrationInv

(* What a step of the migration leaves of files, edits and rows: no row    *)
(* goes, and none changes but to what its file says.                       *)
Steady == /\ UNCHANGED <<mgFile, mgWant, mgTouched, mgSwitched>> /\ mgFault \subseteq mgFault'
          /\ mgFault' \subseteq MG!FileEmails
          /\ mgRow' \in [MG!FileEmails -> MG!RowType]
          /\ \A e \in MG!FileEmails : mgRow[e].id # 0 => mgRow'[e].id = mgRow[e].id
          /\ \A n \in DOMAIN IndexFiles : Done(n) => Done(n)'
          /\ RenewalsKept'

(* Lemma: an entry of the index has an e-mail of the index.                *)
LEMMA EmailsOfFiles == \A n \in DOMAIN IndexFiles : IndexFiles[n].email \in MG!FileEmails
BY DEF MG!FileEmails

(* Lemma: a step that leaves the rows alone is steady.                     *)
LEMMA RowsSame ==
  ASSUME MigrationInv, UNCHANGED <<mgRow, mgFile, mgWant, mgTouched, mgSwitched>>,
         mgFault \subseteq mgFault', mgFault' \subseteq MG!FileEmails
  PROVE  Steady
BY DEF MigrationInv, MG!TypeOK, Steady, Done, Clean, RenewalsKept

(* Lemma: a row written for an entry of the index, with its flags and its  *)
(* credentials, is steady.                                                 *)
LEMMA RowWritten ==
  ASSUME MigrationInv, UNCHANGED <<mgFile, mgWant, mgTouched, mgSwitched>>,
         mgFault \subseteq mgFault', mgFault' \subseteq MG!FileEmails,
         NEW n \in DOMAIN IndexFiles, NEW row \in MG!RowType, MG!MigrationAssumption,
         mgRow' = [mgRow EXCEPT ![IndexFiles[n].email] = row],
         mgRow[IndexFiles[n].email].id # 0 =>
             row.id = mgRow[IndexFiles[n].email].id /\ row.off = IndexFiles[n].off,
         IndexFiles[n].email \notin mgTouched => row.cred = mgFile[IndexFiles[n].email]
  PROVE  Steady /\ mgRow'[IndexFiles[n].email] = row
<1> DEFINE e == IndexFiles[n].email
<1>1. /\ e \in MG!FileEmails /\ mgRow \in [MG!FileEmails -> MG!RowType]
  BY EmailsOfFiles DEF MigrationInv, MG!TypeOK
<1>2. mgRow'[e] = row /\ \A f \in MG!FileEmails : f # e => mgRow'[f] = mgRow[f]
  BY <1>1
<1>3. mgRow' \in [MG!FileEmails -> MG!RowType]
  BY <1>1
<1>4. \A f \in MG!FileEmails : mgRow[f].id # 0 => mgRow'[f].id = mgRow[f].id
  BY <1>1, <1>2
<1>5. RenewalsKept'
  BY <1>1, <1>2 DEF MigrationInv, RenewalsKept
<1>6. ASSUME NEW m \in DOMAIN IndexFiles, Done(m) PROVE Done(m)'
  <2>1. CASE m = n
    BY <1>1, <1>2, <1>6, <2>1 DEF Done, Clean
  <2>2. CASE m # n
    <3>1. mgRow'[IndexFiles[m].email] = mgRow[IndexFiles[m].email]
      BY <1>2, <2>2, EmailsOfFiles DEF MG!MigrationAssumption
    <3> QED BY <1>6, <3>1 DEF Done, Clean
  <2> QED BY <2>1, <2>2
<1> QED BY <1>2, <1>3, <1>4, <1>5, <1>6 DEF Steady

(* Lemma: a step of a run gives it its new record.                         *)
LEMMA RunEffect ==
  ASSUME MigrationInv, NEW i \in Instances, NEW r \in RunRecords,
         mgRun' = [mgRun EXCEPT ![i] = r]
  PROVE  /\ mgRun' \in [Instances -> RunRecords] /\ mgRun'[i] = r
         /\ \A j \in Instances \ {i} : mgRun'[j] = mgRun[j]
BY DEF MigrationInv, MG!TypeOK, RunRecords, Handling, Settling

(* Lemma: a steady step leaves what holds of the other runs.               *)
LEMMA OthersRun ==
  ASSUME MigrationInv, Steady, NEW j \in Instances, mgRun'[j] = mgRun[j]
  PROVE  RunSound(j)'
<1>1. RunSound(j)
  BY DEF MigrationInv
<1>2. CountsKept(j)'
  BY <1>1 DEF RunSound, CountsKept, MG!File
<1>3. BehindDone(j)'
  BY <1>1 DEF RunSound, BehindDone, Steady
<1>4. RowRead(j)'
  BY <1>1 DEF RunSound, RowRead, Steady, MG!Email, MG!File
<1> QED BY <1>2, <1>3, <1>4 DEF RunSound

(* Lemma: a steady step preserves the invariant when its own run stays     *)
(* sound and it keeps the current account and the marker.                  *)
LEMMA StepKeeps ==
  ASSUME MigrationInv, Steady, NEW i \in Instances, NEW r \in RunRecords,
         mgRun' = [mgRun EXCEPT ![i] = r],
         mgMarker' \in BOOLEAN, mgCurrent' \in 0..MaxIds, mgIds' \in 0..MaxIds,
         mgCrashes' \in 0..MigrationCrashes, RunSound(i)',
         mgMarker => mgMarker',
         mgMarker' /\ ~mgMarker => \A n \in DOMAIN IndexFiles : Done(n),
         mgCurrent' # mgCurrent /\ ~mgSwitched =>
            /\ CurrentEmail \in MG!FileEmails
            /\ (CurrentEmail \notin mgTouched /\ mgCurrent' # 0 =>
                    mgCurrent' = mgRow[CurrentEmail].id),
         \/ mgRun[i].pc \notin MG!Idle \union {"check"}
         \/ mgRow' = mgRow /\ (mgMarker => r.pc \in MG!Idle \union {"check"})
  PROVE  MigrationInv'
<1>1. /\ mgRun' \in [Instances -> RunRecords] /\ mgRun'[i] = r
      /\ \A j \in Instances \ {i} : mgRun'[j] = mgRun[j]
  BY RunEffect
<1>2. MG!TypeOK'
  BY <1>1 DEF MigrationInv, MG!TypeOK, Steady, RunRecords, Handling, Settling
<1>3. \A j \in Instances : RunSound(j)'
  BY <1>1, OthersRun
<1>4. CurrentKept'
  <2>1. CASE mgCurrent' = mgCurrent
    BY <2>1 DEF MigrationInv, CurrentKept, Steady
  <2>2. CASE mgCurrent' # mgCurrent
    BY <2>2 DEF Steady, CurrentKept
  <2> QED BY <2>1, <2>2
<1>5. SafeKept'
  <2>1. CASE \E e \in MG!FileEmails : mgWant[e].safe
    <3>1. mgMarker /\ \A j \in Instances : mgRun[j].pc \in MG!Idle \union {"check"}
      BY <2>1 DEF MigrationInv, SafeKept
    <3>2. mgRow' = mgRow /\ r.pc \in MG!Idle \union {"check"}
      BY <3>1
    <3> QED BY <1>1, <3>1, <3>2 DEF MigrationInv, SafeKept, MG!EditsStay, Steady
  <2>2. CASE ~\E e \in MG!FileEmails : mgWant[e].safe
    BY <2>2 DEF SafeKept, MG!EditsStay, Steady
  <2> QED BY <2>1, <2>2
<1>6. mgMarker' => \A n \in DOMAIN IndexFiles : Done(n)'
  BY DEF MigrationInv, Steady
<1> QED BY <1>2, <1>3, <1>4, <1>5, <1>6 DEF MigrationInv, Steady

(* Lemma: an entry that is counted moves the run to the next one and its   *)
(* total with it.                                                          *)
LEMMA Counted ==
  ASSUME MigrationInv, MG!MigrationAssumption, NEW i \in Instances, NEW count \in MG!Counts,
         MG!Counted(i, count), mgRun[i].at <= Len(IndexFiles),
         mgRun[i].pc \in {"next"} \union Handling
  PROVE  \E r \in RunRecords : /\ mgRun' = [mgRun EXCEPT ![i] = r] /\ mgRun'[i] = r
                              /\ r.pc = "next" /\ r.at = mgRun[i].at + 1
                              /\ Total(r.stats) = r.at - 1
                              /\ \A j \in Instances \ {i} : mgRun'[j] = mgRun[j]
<1> DEFINE old == mgRun[i]
           stats == [old.stats EXCEPT ![count] = @ + 1]
           r == [old EXCEPT !.pc = "next", !.at = @ + 1, !.stats = stats,
                         !.row = MG!NoRow, !.cred = 0]
<1>0. old \in RunRecords /\ Total(old.stats) = old.at - 1
  BY DEF MigrationInv, MG!TypeOK, RunRecords, Handling, Settling, RunSound, CountsKept
<1>1. /\ old.stats \in [MG!Counts -> 0..Len(IndexFiles)] /\ old.at \in 1..Len(IndexFiles)
      /\ Len(IndexFiles) \in Nat
  BY <1>0 DEF RunRecords, MG!MigrationAssumption
<1> HIDE DEF old
<1>2. /\ old.stats["migrated"] \in Nat /\ old.stats["updated"] \in Nat
      /\ old.stats["skipped"] \in Nat /\ old.stats["failed"] \in Nat
  BY <1>1 DEF MG!Counts
<1>3. old.stats[count] + 1 \in 0..Len(IndexFiles) /\ Total(stats) = old.at
  <2>1. count = "migrated" \/ count = "updated" \/ count = "skipped" \/ count = "failed"
    BY DEF MG!Counts
  <2>2. Total(stats) = Total(old.stats) + 1
    BY <1>1, <1>2, <2>1 DEF Total, MG!Counts
  <2>3. old.stats[count] <= Total(old.stats) /\ old.stats[count] \in Nat
    <3>1. CASE count = "migrated"
      BY <1>2, <3>1 DEF Total
    <3>2. CASE count = "updated"
      BY <1>2, <3>2 DEF Total
    <3>3. CASE count = "skipped"
      BY <1>2, <3>3 DEF Total
    <3>4. CASE count = "failed"
      BY SMTT(30), <1>2, <3>4 DEF Total
    <3> QED BY <2>1, <3>1, <3>2, <3>3, <3>4
  <2> QED BY <1>0, <1>1, <2>2, <2>3
<1>4. stats \in [MG!Counts -> 0..Len(IndexFiles)]
  BY <1>1, <1>3
<1> HIDE DEF stats
<1>5. MG!NoRow \in MG!RowType /\ 0 \in 0..MaxCred
  BY DEF MG!NoRow, MG!RowType, MG!MigrationAssumption
<1>6. r \in RunRecords /\ r.pc = "next" /\ r.at = old.at + 1 /\ r.stats = stats
  <2>1. old.at + 1 \in 1..(Len(IndexFiles) + 1)
    BY <1>1
  <2>2. "next" \in MG!Idle \union {"check", "next"} \union Handling \union Settling
    OBVIOUS
  <2> QED BY <1>0, <1>4, <1>5, <2>1, <2>2 DEF RunRecords
<1> HIDE DEF r
<1>7. mgRun' = [mgRun EXCEPT ![i] = r]
  BY ZenonT(60) DEF MG!Counted, r, stats, old
<1>8. mgRun'[i] = r /\ \A j \in Instances \ {i} : mgRun'[j] = mgRun[j]
  BY <1>6, <1>7, RunEffect
<1>9. Total(r.stats) = r.at - 1
  BY <1>1, <1>3, <1>6
<1> QED BY <1>6, <1>7, <1>8, <1>9 DEF old

(* Lemma: counting an entry preserves the invariant when its row is done   *)
(* or at fault.                                                            *)
LEMMA CountedKeeps ==
  ASSUME MigrationInv, MG!MigrationAssumption, NEW i \in Instances, NEW count \in MG!Counts,
         MG!Counted(i, count), mgRun[i].at <= Len(IndexFiles),
         mgRun[i].pc \in {"next"} \union Handling, Steady,
         \A n \in DOMAIN IndexFiles : n = mgRun[i].at => Done(n)',
         UNCHANGED <<mgMarker, mgCurrent, mgIds, mgCrashes>>
  PROVE  MigrationInv'
<1>0. MG!TypeOK /\ RunSound(i) /\ mgRun[i] \in RunRecords
  BY DEF MigrationInv, MG!TypeOK, RunRecords, Handling, Settling
<1>1. PICK r \in RunRecords :
         /\ mgRun' = [mgRun EXCEPT ![i] = r] /\ mgRun'[i] = r
         /\ r.pc = "next" /\ r.at = mgRun[i].at + 1 /\ Total(r.stats) = r.at - 1
  BY Counted
<1>2. RunSound(i)'
  <2>1. CountsKept(i)' /\ RowRead(i)'
    BY <1>1 DEF CountsKept, RowRead, Handling, Settling, Total
  <2>2. BehindDone(i)'
    <3> SUFFICES ASSUME NEW n \in DOMAIN IndexFiles, n < mgRun[i].at + 1 PROVE Done(n)'
      BY <1>1 DEF BehindDone
    <3>1. mgRun[i].at \in Nat /\ n \in Nat
      BY <1>0 DEF RunRecords, MG!MigrationAssumption
    <3>2. CASE n = mgRun[i].at
      BY <3>2
    <3>3. CASE n < mgRun[i].at
      <4>1. Done(n)
        BY <1>0, <3>3 DEF RunSound, BehindDone
      <4> QED BY <4>1 DEF Steady
    <3> QED BY <3>1, <3>2, <3>3
  <2> QED BY <2>1, <2>2 DEF RunSound
<1>3. mgRun[i].pc \notin MG!Idle \union {"check"}
  BY DEF Handling, MG!Idle
<1> QED BY <1>0, <1>1, <1>2, <1>3, StepKeeps DEF MG!TypeOK

(* Lemma: an entry that failed is at fault and counted.                    *)
LEMMA FailedKeeps ==
  ASSUME MigrationInv, MG!MigrationAssumption, NEW i \in Instances,
         MG!Failed(i), mgRun[i].at <= Len(IndexFiles),
         mgRun[i].pc \in {"next"} \union Handling,
         MG!Settings, MG!History, UNCHANGED <<mgRow, mgIds>>
  PROVE  MigrationInv'
<1>0. MG!TypeOK /\ mgRun[i] \in RunRecords
  BY DEF MigrationInv, MG!TypeOK, RunRecords, Handling, Settling
<1>1. mgRun[i].at \in DOMAIN IndexFiles
  BY <1>0 DEF RunRecords, MG!MigrationAssumption
<1>2. /\ mgFault' = mgFault \union {IndexFiles[mgRun[i].at].email}
      /\ MG!Counted(i, "failed")
      /\ "failed" \in MG!Counts
  BY DEF MG!Failed, MG!Email, MG!File, MG!Counts
<1>3. Steady
  BY <1>0, <1>1, <1>2, EmailsOfFiles, RowsSame DEF MG!History, MG!TypeOK
<1>4. \A n \in DOMAIN IndexFiles : n = mgRun[i].at => Done(n)'
  BY <1>2 DEF Done, Clean
<1> QED BY <1>2, <1>3, <1>4, CountedKeeps DEF MG!Settings, MG!History

(* Lemma: looking an entry up preserves the invariant.                     *)
LEMMA LookStep ==
  ASSUME MigrationInv, MG!MigrationAssumption, NEW i \in Instances, MG!Look(i)
  PROVE  MigrationInv'
<1>0. MG!TypeOK /\ RunSound(i) /\ mgRun[i] \in RunRecords
  BY DEF MigrationInv, MG!TypeOK, RunRecords, Handling, Settling
<1>1. /\ mgRun[i].pc = "next" /\ mgRun[i].at <= Len(IndexFiles) /\ MG!Settings /\ MG!History
      /\ UNCHANGED <<mgRow, mgIds>>
  BY DEF MG!Look, MG!At
<1>2. mgRun[i].at \in DOMAIN IndexFiles
  BY <1>0, <1>1 DEF RunRecords, MG!MigrationAssumption
<1>3. CASE MG!File(i).kind # "missing" /\ MG!Failed(i)
  BY <1>1, <1>3, FailedKeeps
<1>4. CASE MG!File(i).kind = "missing" /\ MG!Counted(i, "skipped") /\ UNCHANGED mgFault
  <2>1. Steady
    BY <1>0, <1>1, <1>4, RowsSame DEF MG!History, MG!TypeOK
  <2>2. \A n \in DOMAIN IndexFiles : n = mgRun[i].at => Done(n)'
    BY <1>4 DEF Done, MG!File
  <2>3. "skipped" \in MG!Counts
    BY DEF MG!Counts
  <2> QED BY <1>1, <1>4, <2>1, <2>2, <2>3, CountedKeeps DEF MG!Settings, MG!History
<1>5. ASSUME MG!File(i).kind = "ok", UNCHANGED mgFault,
             mgRun' = [mgRun EXCEPT
                                     ![i].pc = IF mgRow[MG!Email(i)].id = 0 THEN "create"
                                                                            ELSE "update",
                                    ![i].row = mgRow[MG!Email(i)],
                                    ![i].cred = mgFile[MG!Email(i)]]
      PROVE  MigrationInv'
  <2> DEFINE e == MG!Email(i)
             r == [mgRun[i] EXCEPT !.pc = IF mgRow[e].id = 0 THEN "create" ELSE "update",
                                   !.row = mgRow[e], !.cred = mgFile[e]]
  <2>1. e \in MG!FileEmails /\ mgRow[e] \in MG!RowType /\ mgFile[e] \in 0..MaxCred
    BY <1>0, <1>2, EmailsOfFiles DEF MG!Email, MG!File, MG!TypeOK
  <2> HIDE DEF e
  <2>2. /\ r \in RunRecords /\ r.pc = (IF mgRow[e].id = 0 THEN "create" ELSE "update")
        /\ r.row = mgRow[e] /\ r.cred = mgFile[e] /\ r.at = mgRun[i].at
        /\ r.stats = mgRun[i].stats
    BY <1>0, <2>1 DEF RunRecords, Handling
  <2>3. mgRun' = [mgRun EXCEPT ![i] = r]
    BY <1>5 DEF e
  <2> HIDE DEF r
  <2>4. mgRun'[i] = r
    BY <2>2, <2>3, RunEffect
  <2>5. Steady
    BY <1>0, <1>1, <1>5, RowsSame DEF MG!History, MG!TypeOK
  <2>6. CountsKept(i)'
    BY <1>0, <1>1, <1>5, <2>2, <2>4 DEF RunSound, CountsKept, Handling, Settling, MG!File,
       Total
  <2>7. BehindDone(i)'
    <3>1. \A n \in DOMAIN IndexFiles : n < mgRun[i].at => Done(n)
      BY <1>0, <1>1 DEF RunSound, BehindDone
    <3> QED BY <2>2, <2>4, <2>5, <3>1 DEF BehindDone, Steady
  <2>8. RowRead(i)'
    <3>1. (MG!Email(i))' = e
      BY <2>2, <2>4 DEF MG!Email, MG!File, e
    <3>2. mgFile' = mgFile /\ mgTouched' = mgTouched
      BY <1>1 DEF MG!History
    <3> QED BY <2>2, <2>4, <3>1, <3>2 DEF RowRead
  <2>9. mgRun[i].pc \notin MG!Idle \union {"check"}
    BY <1>1 DEF MG!Idle
  <2> QED BY <1>0, <1>1, <2>2, <2>3, <2>5, <2>6, <2>7, <2>8, <2>9, StepKeeps
          DEF RunSound, MG!TypeOK, MG!Settings, MG!History
<1> QED BY <1>1, <1>3, <1>4, <1>5 DEF MG!Look

(* Lemma: writing the row of the entry and counting it preserves the       *)
(* invariant.                                                              *)
LEMMA WriteKeeps ==
  ASSUME MigrationInv, MG!MigrationAssumption, NEW i \in Instances, NEW row,
         NEW count \in MG!Counts,
         MG!Write(i, row, count), mgRun[i].pc \in Handling, mgRun[i].at <= Len(IndexFiles),
         row \in MG!RowType, row.id # 0, row.off = MG!File(i).off,
         MG!Email(i) \notin mgTouched => row.cred = mgFile[MG!Email(i)],
         MG!Settings, MG!History, mgIds' = mgIds
  PROVE  MigrationInv'
<1>0. MG!TypeOK /\ mgRun[i] \in RunRecords
  BY DEF MigrationInv, MG!TypeOK, RunRecords, Handling, Settling
<1>1. PICK n \in DOMAIN IndexFiles : n = mgRun[i].at
  BY <1>0 DEF RunRecords, MG!MigrationAssumption
<1>2. /\ mgRow[IndexFiles[n].email].id = row.id
      /\ mgRow' = [mgRow EXCEPT ![IndexFiles[n].email] = row]
      /\ MG!Counted(i, count) /\ UNCHANGED mgFault
  BY <1>1 DEF MG!Write, MG!Email, MG!File
<1>3. Steady /\ mgRow'[IndexFiles[n].email] = row
  <2>1. /\ UNCHANGED <<mgFile, mgWant, mgTouched, mgSwitched>> /\ mgFault \subseteq mgFault'
        /\ mgFault' \subseteq MG!FileEmails
    BY <1>0, <1>2 DEF MG!History, MG!TypeOK
  <2>2. /\ row.off = IndexFiles[n].off
        /\ (IndexFiles[n].email \notin mgTouched => row.cred = mgFile[IndexFiles[n].email])
    BY <1>1 DEF MG!File, MG!Email
  <2> QED BY <1>2, <2>1, <2>2, RowWritten
<1>4. \A m \in DOMAIN IndexFiles : m = mgRun[i].at => Done(m)'
  <2>1. Done(n)'
    BY <1>1, <1>3 DEF Done, Clean, MG!File, MG!Email, MG!History
  <2> QED BY <1>1, <2>1
<1> QED BY <1>2, <1>3, <1>4, CountedKeeps DEF MG!Settings, MG!History

(* Lemma: updating a row that was there preserves the invariant.           *)
LEMMA RowUpdateStep ==
  ASSUME MigrationInv, MG!MigrationAssumption, NEW i \in Instances, MG!Update(i)
  PROVE  MigrationInv'
<1>0. MG!TypeOK /\ RunSound(i) /\ mgRun[i] \in RunRecords
  BY DEF MigrationInv, MG!TypeOK, RunRecords, Handling, Settling
<1>1. /\ mgRun[i].pc = "update" /\ MG!Settings /\ MG!History /\ mgIds' = mgIds
      /\ mgRun[i].at <= Len(IndexFiles)
  BY <1>0 DEF MG!Update, MG!At, RunSound, CountsKept, Handling
<1>2. CASE MG!Failed(i) /\ UNCHANGED mgRow
  BY <1>1, <1>2, FailedKeeps DEF Handling
<1>3. CASE MG!Write(i, MG!Updated(mgRun[i].row, mgRun[i].cred, MG!File(i)), "updated")
  <2> DEFINE row == MG!Updated(mgRun[i].row, mgRun[i].cred, MG!File(i))
  <2>1. MG!File(i).off \in BOOLEAN
    BY <1>0, <1>1 DEF MG!File, RunRecords, MG!MigrationAssumption
  <2>2. /\ row \in MG!RowType /\ row.id = mgRun[i].row.id /\ row.off = MG!File(i).off
        /\ row.cred = mgRun[i].cred
    BY <1>0, <2>1 DEF MG!Updated, RunRecords, MG!RowType
  <2> HIDE DEF row
  <2>3. row.id # 0 /\ (MG!Email(i) \notin mgTouched => row.cred = mgFile[MG!Email(i)])
    BY <1>0, <1>1, <2>2 DEF RunSound, RowRead
  <2>4. "updated" \in MG!Counts /\ mgRun[i].pc \in Handling
    BY <1>1 DEF MG!Counts, Handling
  <2> QED BY <1>1, <1>3, <2>2, <2>3, <2>4, WriteKeeps DEF row
<1> QED BY <1>1, <1>2, <1>3 DEF MG!Update

(* Lemma: writing the flags of a row that was created preserves the        *)
(* invariant.                                                              *)
LEMMA FlagsStep ==
  ASSUME MigrationInv, MG!MigrationAssumption, NEW i \in Instances, MG!Flags(i)
  PROVE  MigrationInv'
<1>0. MG!TypeOK /\ RunSound(i) /\ mgRun[i] \in RunRecords
  BY DEF MigrationInv, MG!TypeOK, RunRecords, Handling, Settling
<1>1. /\ mgRun[i].pc = "flags" /\ MG!Settings /\ MG!History /\ mgIds' = mgIds
      /\ mgRun[i].at <= Len(IndexFiles)
  BY <1>0 DEF MG!Flags, MG!At, RunSound, CountsKept, Handling
<1>4. "migrated" \in MG!Counts /\ mgRun[i].pc \in Handling
  BY <1>1 DEF MG!Counts, Handling
<1>2. CASE /\ MG!Counted(i, "migrated") /\ mgFault' = mgFault \union {MG!Email(i)}
           /\ UNCHANGED mgRow
  <2>1. MG!Email(i) \in MG!FileEmails
    BY <1>0, <1>1, EmailsOfFiles DEF MG!Email, MG!File, RunRecords, MG!MigrationAssumption
  <2>2. Steady
    BY <1>0, <1>1, <1>2, <2>1, RowsSame DEF MG!History, MG!TypeOK
  <2>3. \A n \in DOMAIN IndexFiles : n = mgRun[i].at => Done(n)'
    BY <1>2 DEF Done, Clean, MG!Email, MG!File
  <2> QED BY <1>1, <1>2, <1>4, <2>2, <2>3, CountedKeeps DEF MG!Settings, MG!History
<1>3. CASE MG!Write(i, MG!Updated(mgRun[i].row, mgRun[i].row.cred, MG!File(i)), "migrated")
  <2> DEFINE row == MG!Updated(mgRun[i].row, mgRun[i].row.cred, MG!File(i))
  <2>1. MG!File(i).off \in BOOLEAN
    BY <1>0, <1>1 DEF MG!File, RunRecords, MG!MigrationAssumption
  <2>2. /\ row \in MG!RowType /\ row.id = mgRun[i].row.id /\ row.off = MG!File(i).off
        /\ row.cred = mgRun[i].row.cred
    BY <1>0, <2>1 DEF MG!Updated, RunRecords, MG!RowType
  <2> HIDE DEF row
  <2>3. row.id # 0 /\ (MG!Email(i) \notin mgTouched => row.cred = mgFile[MG!Email(i)])
    BY <1>0, <1>1, <2>2 DEF RunSound, RowRead
  <2> QED BY <1>1, <1>3, <1>4, <2>2, <2>3, WriteKeeps DEF row
<1> QED BY <1>1, <1>2, <1>3 DEF MG!Flags

(* Lemma: creating a row, or finding that another instance has, preserves  *)
(* the invariant.                                                          *)
LEMMA CreateStep ==
  ASSUME MigrationInv, MG!MigrationAssumption, NEW i \in Instances, MG!Create(i)
  PROVE  MigrationInv'
<1>0. MG!TypeOK /\ RunSound(i) /\ mgRun[i] \in RunRecords
  BY DEF MigrationInv, MG!TypeOK, RunRecords, Handling, Settling
<1>1. mgRun[i].pc = "create" /\ MG!Settings /\ MG!History /\ mgRun[i].at <= Len(IndexFiles)
  BY <1>0 DEF MG!Create, MG!At, RunSound, CountsKept, Handling
<1>2. CASE MG!Failed(i) /\ UNCHANGED <<mgRow, mgIds>>
  BY <1>1, <1>2, FailedKeeps DEF Handling
<1>3. ASSUME mgRow[MG!Email(i)].id = 0, mgIds < MaxIds,
             mgRow' = [mgRow EXCEPT
                          ![MG!Email(i)] = [MG!NoRow EXCEPT !.id = mgIds + 1,
                                                            !.cred = mgRun[i].cred]],
             mgIds' = mgIds + 1,
             mgRun' = [mgRun EXCEPT ![i].pc = "read", ![i].row.id = mgIds + 1],
             UNCHANGED mgFault
      PROVE  MigrationInv'
  <2> DEFINE e == MG!Email(i)
             row == [MG!NoRow EXCEPT !.id = mgIds + 1, !.cred = mgRun[i].cred]
             r == [mgRun[i] EXCEPT !.pc = "read", !.row.id = mgIds + 1]
  <2>1. PICK n \in DOMAIN IndexFiles : n = mgRun[i].at /\ e = IndexFiles[n].email
    BY <1>0, <1>1 DEF MG!Email, MG!File, RunRecords, MG!MigrationAssumption
  <2>2. mgIds + 1 \in 1..MaxIds
    BY <1>0, <1>3 DEF MG!TypeOK, MG!MigrationAssumption
  <2>3. /\ row \in MG!RowType /\ row.id = mgIds + 1 /\ row.cred = mgRun[i].cred
    <3>1. mgIds + 1 \in 0..MaxIds /\ mgRun[i].cred \in 0..MaxCred
      BY <1>0, <2>2 DEF RunRecords
    <3>2. MG!NoRow \in MG!RowType
      BY DEF MG!NoRow, MG!RowType, MG!MigrationAssumption
    <3> QED BY <3>1, <3>2 DEF MG!RowType
  <2>4. /\ r \in RunRecords /\ r.pc = "read" /\ r.row.id = mgIds + 1 /\ r.at = mgRun[i].at
        /\ r.stats = mgRun[i].stats
    <3>1. mgIds + 1 \in 0..MaxIds
      BY <2>2
    <3>2. mgRun[i].row \in MG!RowType
      BY <1>0 DEF RunRecords
    <3> DEFINE new == [mgRun[i].row EXCEPT !.id = mgIds + 1]
    <3>3. new \in MG!RowType /\ new.id = mgIds + 1
      BY <3>1, <3>2 DEF MG!RowType
    <3>4. r = [mgRun[i] EXCEPT !.pc = "read", !.row = new]
      BY <1>0 DEF RunRecords
    <3> HIDE DEF new, r
    <3> QED BY <1>0, <3>3, <3>4 DEF RunRecords, Handling
  <2>5. mgRun' = [mgRun EXCEPT ![i] = r] /\ mgRow' = [mgRow EXCEPT ![e] = row]
    BY <1>3
  <2> HIDE DEF r, row
  <2>6. mgRun'[i] = r
    BY <2>4, <2>5, RunEffect
  <2>7. Steady
    <3>1. e \notin mgTouched => row.cred = mgFile[e]
      BY <1>0, <1>1, <2>3 DEF RunSound, RowRead
    <3>2. /\ UNCHANGED <<mgFile, mgWant, mgTouched, mgSwitched>>
          /\ mgFault \subseteq mgFault'
          /\ mgFault' \subseteq MG!FileEmails
      BY <1>0, <1>1, <1>3 DEF MG!History, MG!TypeOK
    <3> HIDE DEF e
    <3>3. mgRow[IndexFiles[n].email].id = 0
      BY <1>3, <2>1 DEF e
    <3> QED BY <2>1, <2>3, <2>5, <3>1, <3>2, <3>3, RowWritten
  <2>8. CountsKept(i)' /\ RowRead(i)'
    <3>1. r.row.id # 0
      BY <2>2, <2>4
    <3>2. CountsKept(i)'
      BY <1>0, <1>1, <2>4, <2>6 DEF RunSound, CountsKept, Handling, Settling, MG!File, Total
    <3> QED BY <2>4, <2>6, <3>1, <3>2 DEF RowRead
  <2>9. BehindDone(i)'
    <3>1. \A m \in DOMAIN IndexFiles : m < mgRun[i].at => Done(m)
      BY <1>0, <1>1 DEF RunSound, BehindDone, Handling
    <3> QED BY <2>4, <2>6, <2>7, <3>1 DEF BehindDone, Steady
  <2>10. mgRun[i].pc \notin MG!Idle \union {"check"}
    BY <1>1 DEF MG!Idle
  <2>11. mgIds' \in 0..MaxIds
    BY <1>3, <2>2
  <2> QED BY <1>0, <1>1, <2>4, <2>5, <2>7, <2>8, <2>9, <2>10, <2>11, StepKeeps
          DEF RunSound, MG!TypeOK, MG!Settings, MG!History
<1> QED BY <1>1, <1>2, <1>3 DEF MG!Create

(* Lemma: reading back the row that was created preserves the invariant.   *)
LEMMA RereadStep ==
  ASSUME MigrationInv, MG!MigrationAssumption, NEW i \in Instances, MG!Reread(i)
  PROVE  MigrationInv'
<1>0. MG!TypeOK /\ RunSound(i) /\ mgRun[i] \in RunRecords
  BY DEF MigrationInv, MG!TypeOK, RunRecords, Handling, Settling
<1>1. /\ mgRun[i].pc = "read" /\ MG!Settings /\ MG!History /\ UNCHANGED <<mgRow, mgIds>>
      /\ mgRun[i].at <= Len(IndexFiles)
  BY <1>0 DEF MG!Reread, MG!At, RunSound, CountsKept, Handling
<1>2. CASE MG!Failed(i)
  BY <1>1, <1>2, FailedKeeps DEF Handling
<1>3. ASSUME mgRow[MG!Email(i)].id = mgRun[i].row.id,
             mgRun' = [mgRun EXCEPT ![i].pc = "flags", ![i].row = mgRow[MG!Email(i)]],
             UNCHANGED mgFault
      PROVE  MigrationInv'
  <2> DEFINE e == MG!Email(i)
             r == [mgRun[i] EXCEPT !.pc = "flags", !.row = mgRow[e]]
  <2>1. e \in MG!FileEmails /\ mgRow[e] \in MG!RowType
    BY <1>0, <1>1, EmailsOfFiles DEF MG!Email, MG!File, RunRecords, MG!MigrationAssumption,
       MG!TypeOK
  <2>2. /\ mgRow[e].id # 0 /\ (e \notin mgTouched => mgRow[e].cred = mgFile[e])
    BY <1>0, <1>1, <1>3, <2>1 DEF RunSound, RowRead, MigrationInv, RenewalsKept
  <2> HIDE DEF e
  <2>3. /\ r \in RunRecords /\ r.pc = "flags" /\ r.row = mgRow[e] /\ r.at = mgRun[i].at
        /\ r.stats = mgRun[i].stats
    BY <1>0, <2>1 DEF RunRecords, Handling
  <2>4. mgRun' = [mgRun EXCEPT ![i] = r]
    BY <1>3 DEF e
  <2> HIDE DEF r
  <2>5. mgRun'[i] = r
    BY <2>3, <2>4, RunEffect
  <2>6. Steady
    BY <1>0, <1>1, <1>3, RowsSame DEF MG!History, MG!TypeOK
  <2>7. CountsKept(i)'
    BY <1>0, <1>1, <2>3, <2>5 DEF RunSound, CountsKept, Handling, Settling, MG!File, Total
  <2>8. BehindDone(i)'
    <3>1. \A n \in DOMAIN IndexFiles : n < mgRun[i].at => Done(n)
      BY <1>0, <1>1 DEF RunSound, BehindDone, Handling
    <3> QED BY <2>3, <2>5, <2>6, <3>1 DEF BehindDone, Steady
  <2>9. RowRead(i)'
    <3>1. (MG!Email(i))' = e
      BY <2>3, <2>5 DEF MG!Email, MG!File, e
    <3>2. mgFile' = mgFile /\ mgTouched' = mgTouched
      BY <1>1 DEF MG!History
    <3> QED BY <2>2, <2>3, <2>5, <3>1, <3>2 DEF RowRead
  <2>10. mgRun[i].pc \notin MG!Idle \union {"check"}
    BY <1>1 DEF MG!Idle
  <2> QED BY <1>0, <1>1, <2>3, <2>4, <2>6, <2>7, <2>8, <2>9, <2>10, StepKeeps
          DEF RunSound, MG!TypeOK, MG!Settings, MG!History
<1> QED BY <1>1, <1>2, <1>3 DEF MG!Reread

(* Lemma: a run that goes where it handles nothing preserves the           *)
(* invariant.                                                              *)
LEMMA PlaceKeeps ==
  ASSUME MigrationInv, MG!MigrationAssumption, NEW i \in Instances, NEW r \in RunRecords,
         mgRun' = [mgRun EXCEPT ![i] = r], r.pc \in MG!Idle \union {"check"},
         UNCHANGED <<mgRow, mgFile, mgIds, mgWant, mgFault, mgTouched, mgSwitched, mgCurrent>>,
         mgMarker' \in BOOLEAN, mgMarker => mgMarker', mgCrashes' \in 0..MigrationCrashes,
         mgMarker' /\ ~mgMarker => \A n \in DOMAIN IndexFiles : Done(n)
  PROVE  MigrationInv'
<1>0. MG!TypeOK
  BY DEF MigrationInv
<1>1. mgRun'[i] = r
  BY RunEffect
<1>2. /\ r.pc \notin {"next"} \union Handling \union Settling
      /\ r.pc \notin {"update", "read", "flags", "current", "create"}
  BY DEF MG!Idle, Handling, Settling
<1>3. RunSound(i)'
  BY <1>1, <1>2 DEF RunSound, CountsKept, BehindDone, RowRead
<1>4. Steady
  BY <1>0, RowsSame DEF MG!TypeOK
<1> QED BY <1>0, <1>3, <1>4, StepKeeps DEF MG!TypeOK

(* Lemma: an instance that is down, starting or serving.                   *)
LEMMA DownType == /\ MG!MigrationAssumption => MG!Down \in RunRecords
                  /\ \A pc \in MG!Idle : MG!MigrationAssumption =>
                        /\ [MG!Down EXCEPT !.pc = pc] \in RunRecords
                        /\ [MG!Down EXCEPT !.pc = pc].pc = pc
<1> SUFFICES ASSUME MG!MigrationAssumption
             PROVE  /\ MG!Down \in RunRecords
                    /\ \A pc \in MG!Idle : /\ [MG!Down EXCEPT !.pc = pc] \in RunRecords
                                            /\ [MG!Down EXCEPT !.pc = pc].pc = pc
  OBVIOUS
<1>1. /\ MG!NoRow \in MG!RowType /\ MG!Stats \in [MG!Counts -> 0..Len(IndexFiles)]
      /\ 0 \in 0..MaxCred /\ 1 \in 1..(Len(IndexFiles) + 1)
  BY DEF MG!MigrationAssumption, MG!NoRow, MG!RowType, MG!Stats
<1>2. MG!Down \in RunRecords
  BY <1>1 DEF MG!Down, RunRecords, MG!Idle
<1> QED BY <1>2 DEF RunRecords

(* Lemma: an instance that starts preserves the invariant.                 *)
LEMMA RunStarts ==
  ASSUME MigrationInv, MG!MigrationAssumption, NEW i \in Instances, MG!Start(i)
  PROVE  MigrationInv'
<1>0. MG!TypeOK /\ RunSound(i) /\ mgRun[i] \in RunRecords
  BY DEF MigrationInv, MG!TypeOK, RunRecords, Handling, Settling
<1>1. PICK pc \in {"check", "files"} : mgRun' = [mgRun EXCEPT ![i].pc = pc]
  BY DEF MG!Start, MG!Goes
<1> DEFINE r == [mgRun[i] EXCEPT !.pc = pc]
<1>2. r \in RunRecords /\ r.pc = pc /\ mgRun' = [mgRun EXCEPT ![i] = r]
  BY <1>0, <1>1 DEF RunRecords, MG!Idle
<1> HIDE DEF r
<1>3. /\ UNCHANGED <<mgRow, mgFile, mgIds, mgWant, mgFault, mgTouched, mgSwitched,
                     mgCurrent, mgMarker, mgCrashes>>
      /\ r.pc \in MG!Idle \union {"check"}
  BY <1>2 DEF MG!Start, MG!Settings, MG!History, MG!Idle
<1> QED BY <1>0, <1>2, <1>3, PlaceKeeps DEF MG!TypeOK

(* Lemma: finding the marker, or beginning with the first entry, preserves *)
(* the invariant.                                                          *)
LEMMA MarkerCheckStep ==
  ASSUME MigrationInv, MG!MigrationAssumption, NEW i \in Instances, MG!Check(i)
  PROVE  MigrationInv'
<1>0. MG!TypeOK /\ RunSound(i) /\ mgRun[i] \in RunRecords
  BY DEF MigrationInv, MG!TypeOK, RunRecords, Handling, Settling
<1>1. /\ mgRun[i].pc = "check"
      /\ UNCHANGED <<mgRow, mgFile, mgIds, mgWant, mgFault, mgTouched, mgSwitched,
                     mgCurrent, mgMarker, mgCrashes>>
  BY DEF MG!Check, MG!At, MG!Settings, MG!History
<1>2. CASE MG!Becomes(i, "serving")
  <2>1. /\ [MG!Down EXCEPT !.pc = "serving"] \in RunRecords
        /\ [MG!Down EXCEPT !.pc = "serving"].pc = "serving"
        /\ "serving" \in MG!Idle
    BY DownType DEF MG!Idle
  <2> QED BY <1>0, <1>1, <1>2, <2>1, PlaceKeeps DEF MG!Becomes, MG!TypeOK
<1>3. ASSUME ~mgMarker,
             mgRun' = [mgRun EXCEPT ![i].pc = "next", ![i].at = 1, ![i].stats = MG!Stats]
      PROVE  MigrationInv'
  <2> DEFINE r == [mgRun[i] EXCEPT !.pc = "next", !.at = 1, !.stats = MG!Stats]
  <2>1. /\ MG!Stats \in [MG!Counts -> 0..Len(IndexFiles)] /\ Total(MG!Stats) = 0
        /\ 1 \in 1..(Len(IndexFiles) + 1)
    BY DEF MG!Stats, MG!Counts, Total, MG!MigrationAssumption
  <2>2. r \in RunRecords /\ r.pc = "next" /\ r.at = 1 /\ r.stats = MG!Stats
    BY <1>0, <2>1 DEF RunRecords
  <2>3. mgRun' = [mgRun EXCEPT ![i] = r]
    BY <1>3
  <2> HIDE DEF r
  <2>4. mgRun'[i] = r
    BY <2>2, <2>3, RunEffect
  <2>5. RunSound(i)'
    <3>1. CountsKept(i)' /\ RowRead(i)'
      BY <2>1, <2>2, <2>4 DEF CountsKept, RowRead, Handling, Settling
    <3>2. BehindDone(i)'
      BY <2>2, <2>4 DEF BehindDone, MG!MigrationAssumption
    <3> QED BY <3>1, <3>2 DEF RunSound
  <2>6. Steady
    BY <1>0, <1>1, RowsSame DEF MG!TypeOK
  <2> QED BY <1>0, <1>1, <1>3, <2>2, <2>3, <2>5, <2>6, StepKeeps DEF MG!TypeOK
<1> QED BY <1>2, <1>3 DEF MG!Check

(* Lemma: a crash of an instance preserves the invariant.                  *)
LEMMA RunCrashStep ==
  ASSUME MigrationInv, MG!MigrationAssumption, NEW i \in Instances, MG!Crash(i)
  PROVE  MigrationInv'
<1>0. MG!TypeOK /\ RunSound(i) /\ mgRun[i] \in RunRecords
  BY DEF MigrationInv, MG!TypeOK, RunRecords, Handling, Settling
<1>1. /\ MG!Becomes(i, "down") /\ mgCrashes < MigrationCrashes /\ mgCrashes' = mgCrashes + 1
      /\ UNCHANGED <<mgRow, mgFile, mgIds, mgWant, mgFault, mgTouched, mgSwitched,
                     mgCurrent, mgMarker>>
  BY DEF MG!Crash, MG!Settings
<1>2. /\ [MG!Down EXCEPT !.pc = "down"] \in RunRecords
      /\ [MG!Down EXCEPT !.pc = "down"].pc = "down"
      /\ "down" \in MG!Idle
  BY DownType DEF MG!Idle
<1>3. mgCrashes' \in 0..MigrationCrashes
  BY <1>0, <1>1 DEF MG!TypeOK, MG!MigrationAssumption
<1> QED BY <1>0, <1>1, <1>2, <1>3, PlaceKeeps DEF MG!Becomes, MG!TypeOK

(* Lemma: writing the marker, when all is counted, preserves the           *)
(* invariant.                                                              *)
LEMMA MarkStep ==
  ASSUME MigrationInv, MG!MigrationAssumption, NEW i \in Instances, MG!Mark(i)
  PROVE  MigrationInv'
<1>0. MG!TypeOK /\ RunSound(i) /\ mgRun[i] \in RunRecords
  BY DEF MigrationInv, MG!TypeOK, RunRecords, Handling, Settling
<1>1. /\ MG!Becomes(i, "serving") /\ mgMarker' \in {TRUE, mgMarker} /\ mgRun[i].pc = "mark"
      /\ UNCHANGED <<mgRow, mgFile, mgIds, mgWant, mgFault, mgTouched, mgSwitched,
                     mgCurrent, mgCrashes>>
  BY DEF MG!Mark, MG!History, MG!At
<1>2. /\ [MG!Down EXCEPT !.pc = "serving"] \in RunRecords
      /\ [MG!Down EXCEPT !.pc = "serving"].pc = "serving"
      /\ "serving" \in MG!Idle
  BY DownType DEF MG!Idle
<1>3. \A n \in DOMAIN IndexFiles : Done(n)
  <2>1. mgRun[i].at = Len(IndexFiles) + 1
    BY <1>0, <1>1 DEF RunSound, CountsKept, Settling
  <2>2. \A n \in DOMAIN IndexFiles : n < mgRun[i].at
    BY <2>1 DEF MG!MigrationAssumption
  <2> QED BY <1>0, <1>1, <2>2 DEF RunSound, BehindDone, Settling
<1> QED BY <1>0, <1>1, <1>2, <1>3, PlaceKeeps DEF MG!Becomes, MG!TypeOK

(* Lemma: finding and setting the current account preserves the invariant. *)
LEMMA CurrentStep ==
  ASSUME MigrationInv, MG!MigrationAssumption, NEW i \in Instances,
         MG!FindCurrent(i) \/ MG!SetCurrent(i)
  PROVE  MigrationInv'
<1>0. MG!TypeOK /\ RunSound(i) /\ mgRun[i] \in RunRecords
  BY DEF MigrationInv, MG!TypeOK, RunRecords, Handling, Settling
<1>1. UNCHANGED <<mgRow, mgFile, mgIds, mgWant, mgFault, mgTouched, mgSwitched, mgMarker,
                  mgCrashes>>
  BY DEF MG!FindCurrent, MG!SetCurrent, MG!Settings, MG!History
<1>2. Steady
  BY <1>0, <1>1, RowsSame DEF MG!TypeOK
<1>3. ASSUME NEW r \in RunRecords, mgRun' = [mgRun EXCEPT ![i] = r], r.pc \in Settling,
             r.at = mgRun[i].at, r.stats = mgRun[i].stats,
             \/ mgRun[i].pc \in Settling
             \/ mgRun[i].pc = "next" /\ mgRun[i].at > Len(IndexFiles),
             r.pc = "current" => /\ CurrentEmail \in MG!FileEmails
                                  /\ r.row = mgRow[CurrentEmail] /\ mgRow[CurrentEmail].id # 0,
             mgCurrent' \in 0..MaxIds,
             \/ mgCurrent' = mgCurrent
             \/ /\ CurrentEmail \in MG!FileEmails
                /\ CurrentEmail \notin mgTouched => mgCurrent' = mgRow[CurrentEmail].id
      PROVE  MigrationInv'
  <2>1. mgRun'[i] = r
    BY <1>3, RunEffect
  <2>2. mgRun[i].at \in 1..(Len(IndexFiles) + 1) /\ Len(IndexFiles) \in Nat
    BY <1>0 DEF RunRecords, MG!MigrationAssumption
  <2>3. CountsKept(i)'
    <3>1. Total(r.stats) = Len(IndexFiles) /\ r.at = Len(IndexFiles) + 1
      BY <1>0, <1>3, <2>2 DEF RunSound, CountsKept
    <3> QED BY <1>3, <2>1, <3>1 DEF CountsKept, Handling, Settling
  <2>4. BehindDone(i)'
    <3>1. \A n \in DOMAIN IndexFiles : n < mgRun[i].at => Done(n)
      BY <1>0, <1>3 DEF RunSound, BehindDone
    <3> QED BY <1>2, <1>3, <2>1, <3>1 DEF BehindDone, Steady
  <2>5. RowRead(i)'
    BY <1>1, <1>3, <2>1 DEF RowRead, Settling
  <2>6. mgRun[i].pc \notin MG!Idle \union {"check"}
    BY <1>3 DEF MG!Idle, Settling
  <2> QED BY <1>0, <1>1, <1>2, <1>3, <2>3, <2>4, <2>5, <2>6, StepKeeps DEF RunSound,
             MG!TypeOK
<1>4. CASE MG!FindCurrent(i)
  <2>1. mgRun[i].pc = "next" /\ mgRun[i].at > Len(IndexFiles) /\ mgCurrent' = mgCurrent
    BY <1>4 DEF MG!FindCurrent, MG!At, MG!Settings
  <2>2. ASSUME NEW n \in DOMAIN IndexFiles, IndexFiles[n].email = CurrentEmail,
               mgRow[CurrentEmail].id # 0,
               mgRun' = [mgRun EXCEPT ![i].pc = "current", ![i].row = mgRow[CurrentEmail]]
        PROVE  MigrationInv'
    <3> DEFINE r == [mgRun[i] EXCEPT !.pc = "current", !.row = mgRow[CurrentEmail]]
    <3>1. CurrentEmail \in MG!FileEmails /\ mgRow[CurrentEmail] \in MG!RowType
      BY <1>0, <2>2, EmailsOfFiles DEF MG!TypeOK
    <3>2. /\ r \in RunRecords /\ r.pc = "current" /\ r.row = mgRow[CurrentEmail]
          /\ r.at = mgRun[i].at /\ r.stats = mgRun[i].stats /\ r.pc \in Settling
      BY <1>0, <3>1 DEF RunRecords, Settling
    <3>3. mgRun' = [mgRun EXCEPT ![i] = r]
      BY <2>2
    <3> HIDE DEF r
    <3> QED BY <1>0, <1>3, <2>1, <2>2, <3>1, <3>2, <3>3 DEF MG!TypeOK
  <2>3. ASSUME MG!Goes(i, "mark") PROVE MigrationInv'
    <3> DEFINE r == [mgRun[i] EXCEPT !.pc = "mark"]
    <3>2. /\ r \in RunRecords /\ r.pc = "mark"
          /\ r.at = mgRun[i].at /\ r.stats = mgRun[i].stats /\ r.pc \in Settling
      BY <1>0 DEF RunRecords, Settling
    <3>3. mgRun' = [mgRun EXCEPT ![i] = r]
      BY <2>3 DEF MG!Goes
    <3> HIDE DEF r
    <3> QED BY <1>0, <1>3, <2>1, <3>2, <3>3 DEF MG!TypeOK
  <2> QED BY <1>4, <2>2, <2>3 DEF MG!FindCurrent
<1>5. CASE MG!SetCurrent(i)
  <2>1. /\ mgRun[i].pc = "current" /\ MG!Goes(i, "mark")
        /\ mgCurrent' \in {mgRun[i].row.id, mgCurrent}
    BY <1>5 DEF MG!SetCurrent, MG!At
  <2> DEFINE r == [mgRun[i] EXCEPT !.pc = "mark"]
  <2>2. /\ r \in RunRecords /\ r.pc = "mark"
        /\ r.at = mgRun[i].at /\ r.stats = mgRun[i].stats /\ r.pc \in Settling
        /\ mgRun[i].pc \in Settling
    BY <1>0, <2>1 DEF RunRecords, Settling
  <2>3. mgRun' = [mgRun EXCEPT ![i] = r]
    BY <2>1 DEF MG!Goes
  <2> HIDE DEF r
  <2>4. /\ CurrentEmail \in MG!FileEmails
        /\ (CurrentEmail \notin mgTouched => mgRun[i].row.id = mgRow[CurrentEmail].id)
    BY <1>0, <2>1 DEF RunSound, RowRead
  <2>5. mgRun[i].row.id \in 0..MaxIds /\ mgCurrent \in 0..MaxIds
    BY <1>0 DEF RunRecords, MG!RowType, MG!TypeOK
  <2>6. /\ mgCurrent' \in 0..MaxIds
        /\ \/ mgCurrent' = mgCurrent
           \/ /\ CurrentEmail \in MG!FileEmails
              /\ CurrentEmail \notin mgTouched => mgCurrent' = mgRow[CurrentEmail].id
    BY <2>1, <2>4, <2>5
  <2>7. r.pc # "current"
    BY <2>2
  <2> QED BY <1>3, <2>2, <2>3, <2>6, <2>7
<1> QED BY <1>4, <1>5

(* Lemma: a service that changes a row marks it touched and preserves the  *)
(* invariant.                                                              *)
LEMMA TouchKeeps ==
  ASSUME MigrationInv, MG!MigrationAssumption, NEW e \in MG!FileEmails,
         mgTouched' = mgTouched \union {e},
         mgRow' \in [MG!FileEmails -> MG!RowType],
         mgFile' \in [MG!FileEmails -> 0..MaxCred],
         \A f \in MG!FileEmails \ {e} : mgRow'[f] = mgRow[f] /\ mgFile'[f] = mgFile[f],
         UNCHANGED <<mgRun, mgFault, mgMarker, mgCurrent, mgSwitched>>
  PROVE  /\ \A i \in Instances : RunSound(i)'
         /\ RenewalsKept' /\ CurrentKept'
         /\ mgMarker' => \A n \in DOMAIN IndexFiles : Done(n)'
<1>1. \A n \in DOMAIN IndexFiles : Done(n) => Done(n)'
  BY EmailsOfFiles DEF Done, Clean
<1>2. ASSUME NEW i \in Instances PROVE RunSound(i)'
  <2>1. RunSound(i) /\ mgRun'[i] = mgRun[i]
    BY DEF MigrationInv
  <2>2. CountsKept(i)'
    BY <2>1 DEF RunSound, CountsKept, MG!File
  <2>3. BehindDone(i)'
    BY <1>1, <2>1 DEF RunSound, BehindDone
  <2>4. RowRead(i)'
    <3>1. mgRun[i].pc \in {"update", "create", "flags"} => MG!Email(i) \in MG!FileEmails
      <4>1. mgRun[i].pc \in {"update", "create", "flags"} => mgRun[i].at \in DOMAIN IndexFiles
        BY <2>1 DEF MigrationInv, MG!TypeOK, RunSound, CountsKept, Handling,
           MG!MigrationAssumption
      <4> QED BY <4>1, EmailsOfFiles DEF MG!Email, MG!File
    <3>2. (MG!Email(i))' = MG!Email(i)
      BY <2>1 DEF MG!Email, MG!File
    <3> QED BY <2>1, <3>1, <3>2 DEF RunSound, RowRead
  <2> QED BY <2>2, <2>3, <2>4 DEF RunSound
<1>3. RenewalsKept' /\ CurrentKept'
  BY DEF MigrationInv, RenewalsKept, CurrentKept
<1> QED BY <1>1, <1>2, <1>3 DEF MigrationInv

(* Lemma: an edit of a row after the migration preserves the invariant.    *)
LEMMA EditKeeps ==
  ASSUME MigrationInv, MG!MigrationAssumption, NEW i \in Instances, NEW e \in MG!FileEmails,
         NEW row \in MG!RowType,
         MG!Edit(i, e, row), UNCHANGED mgIds
  PROVE  MigrationInv'
<1>0. MG!TypeOK
  BY DEF MigrationInv
<1>1. /\ mgRow' = [mgRow EXCEPT ![e] = row] /\ mgTouched' = mgTouched \union {e}
      /\ UNCHANGED <<mgFile, mgRun, mgCrashes, mgFault, mgSwitched, mgMarker, mgCurrent,
                     mgIds>>
      /\ mgWant' = [mgWant EXCEPT ![e] = IF mgMarker /\ MG!Migrating = {}
                                         THEN [safe |-> TRUE, row |-> row]
                                         ELSE MG!NoWant]
  BY DEF MG!Edit, MG!Settings
<1>2. MG!NoWant \in [safe : BOOLEAN, row : MG!RowType] /\ MG!NoWant.safe = FALSE
  BY DEF MG!NoWant, MG!NoRow, MG!RowType, MG!MigrationAssumption
<1> DEFINE want == IF mgMarker /\ MG!Migrating = {} THEN [safe |-> TRUE, row |-> row] ELSE MG!NoWant
<1>3. /\ want \in [safe : BOOLEAN, row : MG!RowType]
      /\ want.safe => mgMarker /\ MG!Migrating = {} /\ want.row = row
  BY <1>2
<1> HIDE DEF want
<1>4. /\ mgRow' \in [MG!FileEmails -> MG!RowType] /\ mgRow'[e] = row
      /\ mgWant' \in [MG!FileEmails -> [safe : BOOLEAN, row : MG!RowType]]
      /\ mgWant'[e] = want
      /\ \A f \in MG!FileEmails \ {e} : mgRow'[f] = mgRow[f] /\ mgWant'[f] = mgWant[f]
  BY <1>0, <1>1, <1>3 DEF want, MG!TypeOK
<1>5. MG!TypeOK'
  BY <1>0, <1>1, <1>4 DEF MG!TypeOK
<1>6. /\ \A j \in Instances : RunSound(j)'
      /\ RenewalsKept' /\ CurrentKept'
      /\ mgMarker' => \A n \in DOMAIN IndexFiles : Done(n)'
  BY <1>0, <1>1, <1>4, TouchKeeps DEF MG!TypeOK
<1>7. SafeKept'
  <2>1. MG!EditsStay'
    BY <1>3, <1>4 DEF MigrationInv, SafeKept, MG!EditsStay
  <2>2. want.safe => \A j \in Instances : mgRun[j].pc \in MG!Idle
    BY <1>3 DEF MG!Migrating
  <2> QED BY <1>1, <1>3, <1>4, <2>1, <2>2 DEF MigrationInv, SafeKept
<1> QED BY <1>5, <1>6, <1>7 DEF MigrationInv

(* Lemma: what the instances that serve do to rows and files preserves the *)
(* invariant.                                                              *)
LEMMA ServiceStep ==
  ASSUME MigrationInv, MG!MigrationAssumption, NEW i \in Instances, NEW e \in MG!FileEmails,
         \/ MG!Refresh(i, e) \/ MG!Disable(i, e) \/ MG!Delete(i, e)
         \/ MG!Switch(i, e) \/ MG!RefreshFile(i, e)
  PROVE  MigrationInv'
<1>0. MG!TypeOK /\ mgRow[e] \in MG!RowType /\ mgFile[e] \in 0..MaxCred
  BY DEF MigrationInv, MG!TypeOK
<1>1. CASE MG!Refresh(i, e)
  <2>1. [mgRow[e] EXCEPT !.cred = @ + 1] \in MG!RowType
    <3>1. mgRow[e].cred + 1 \in 0..MaxCred
      BY <1>0, <1>1 DEF MG!Refresh, MG!RowType, MG!MigrationAssumption
    <3> QED BY <1>0, <3>1 DEF MG!RowType
  <2> QED BY <1>1, <2>1, EditKeeps DEF MG!Refresh
<1>2. CASE MG!Disable(i, e)
  <2>1. [mgRow[e] EXCEPT !.off = TRUE] \in MG!RowType
    BY <1>0 DEF MG!RowType
  <2> QED BY <1>2, <2>1, EditKeeps DEF MG!Disable
<1>3. CASE MG!Delete(i, e)
  <2>1. MG!NoRow \in MG!RowType
    BY DEF MG!NoRow, MG!RowType, MG!MigrationAssumption
  <2> QED BY <1>3, <2>1, EditKeeps DEF MG!Delete
<1>4. CASE MG!Switch(i, e)
  <2>1. /\ mgCurrent' = mgRow[e].id /\ mgSwitched' = TRUE
        /\ UNCHANGED <<mgRow, mgFile, mgMarker, mgRun, mgIds, mgCrashes, mgWant, mgFault,
                       mgTouched>>
    BY <1>4 DEF MG!Switch
  <2>2. mgRow[e].id \in 0..MaxIds
    BY <1>0 DEF MG!RowType
  <2>3. MG!TypeOK'
    BY <1>0, <2>1, <2>2 DEF MG!TypeOK
  <2>4. \A n \in DOMAIN IndexFiles : Done(n) => Done(n)'
    BY <2>1 DEF Done, Clean
  <2>5. \A j \in Instances : RunSound(j)'
    BY <2>1, <2>4 DEF MigrationInv, RunSound, CountsKept, BehindDone, RowRead, MG!Email,
       MG!File
  <2>6. RenewalsKept' /\ CurrentKept' /\ SafeKept'
    BY <2>1 DEF MigrationInv, RenewalsKept, CurrentKept, SafeKept, MG!EditsStay
  <2> QED BY <2>1, <2>3, <2>4, <2>5, <2>6 DEF MigrationInv
<1>5. CASE MG!RefreshFile(i, e)
  <2>1. /\ mgFile[e] < MaxCred /\ mgFile' = [mgFile EXCEPT ![e] = @ + 1]
        /\ mgTouched' = mgTouched \union {e}
        /\ UNCHANGED <<mgMarker, mgCurrent, mgRow, mgRun, mgIds, mgCrashes, mgWant, mgFault,
                       mgSwitched>>
    BY <1>5 DEF MG!RefreshFile, MG!Settings
  <2>2. mgFile[e] + 1 \in 0..MaxCred
    BY <1>0, <2>1 DEF MG!MigrationAssumption
  <2>3. /\ mgFile' \in [MG!FileEmails -> 0..MaxCred]
        /\ \A f \in MG!FileEmails \ {e} : mgFile'[f] = mgFile[f]
    BY <1>0, <2>1, <2>2 DEF MG!TypeOK
  <2>4. MG!TypeOK'
    BY <1>0, <2>1, <2>3 DEF MG!TypeOK
  <2>5. SafeKept'
    BY <2>1 DEF MigrationInv, SafeKept, MG!EditsStay
  <2>6. /\ \A j \in Instances : RunSound(j)'
        /\ RenewalsKept' /\ CurrentKept'
        /\ mgMarker' => \A n \in DOMAIN IndexFiles : Done(n)'
    BY <1>0, <2>1, <2>3, TouchKeeps DEF MG!TypeOK
  <2> QED BY <2>4, <2>5, <2>6 DEF MigrationInv
<1> QED BY <1>1, <1>2, <1>3, <1>4, <1>5

(* Lemma: every step of the migration preserves the invariant.             *)
LEMMA MigrationStep ==
  ASSUME MG!MigrationAssumption, MigrationInv, [MG!Next]_(MG!mgVars) PROVE MigrationInv'
<1>1. ASSUME NEW i \in Instances,
             \/ MG!Start(i) \/ MG!Check(i) \/ MG!Look(i) \/ MG!Update(i) \/ MG!Create(i)
             \/ MG!Reread(i)
             \/ MG!Flags(i) \/ MG!FindCurrent(i) \/ MG!SetCurrent(i) \/ MG!Mark(i) \/ MG!Crash(i)
      PROVE  MigrationInv'
  BY <1>1, RunStarts, MarkerCheckStep, LookStep, RowUpdateStep, CreateStep, RereadStep,
     FlagsStep,
     CurrentStep, MarkStep, RunCrashStep
<1>2. ASSUME UNCHANGED MG!mgVars PROVE MigrationInv'
  <2>1. UNCHANGED <<mgRow, mgFile, mgMarker, mgCurrent, mgRun, mgIds, mgCrashes, mgWant,
                    mgFault, mgTouched, mgSwitched>>
    BY <1>2 DEF MG!mgVars
  <2>2. MG!TypeOK'
    BY <2>1 DEF MigrationInv, MG!TypeOK
  <2>3. \A n \in DOMAIN IndexFiles : Done(n) => Done(n)'
    BY <2>1 DEF Done, Clean
  <2>4. \A j \in Instances : RunSound(j)'
    BY <2>1, <2>3 DEF MigrationInv, RunSound, CountsKept, BehindDone, RowRead, MG!Email,
       MG!File
  <2>5. RenewalsKept' /\ CurrentKept' /\ SafeKept'
    BY <2>1 DEF MigrationInv, RenewalsKept, CurrentKept, SafeKept, MG!EditsStay
  <2> QED BY <2>1, <2>2, <2>3, <2>4, <2>5 DEF MigrationInv
<1> QED BY <1>1, <1>2, ServiceStep DEF MG!Next

(* Theorem: the invariant of the migration holds in every reachable state. *)
THEOREM MigrationInvariance == ASSUME MG!MigrationAssumption PROVE MG!Spec => []MigrationInv
<1>1. MG!Init => MigrationInv
  BY MigrationInit
<1>2. MigrationInv /\ [MG!Next]_(MG!mgVars) => MigrationInv'
  BY MigrationStep
<1> QED BY <1>1, <1>2, PTL DEF MG!Spec

(* Theorem: the migration keeps to its types for any index and any number  *)
(* of instances.                                                           *)
THEOREM MigrationTypeCorrect == ASSUME MG!MigrationAssumption PROVE MG!Spec => []MG!TypeOK
<1>1. MigrationInv => MG!TypeOK
  BY DEF MigrationInv
<1> QED BY <1>1, MigrationInvariance, PTL

(* Theorem: whatever instances start, crash and serve beside each other,   *)
(* what the service did after the migration stays done, a readable account *)
(* that neither failed nor was edited has a row with the flags and the     *)
(* credentials of its file, each entry is counted once, and the current    *)
(* account is the one of the index until the service switches              *)
(* (json_migration.rs).                                                    *)
THEOREM MigrationAlwaysSound ==
  ASSUME MG!MigrationAssumption
  PROVE  MG!Spec => []MG!MigrationSound
<1>1. ASSUME MigrationInv PROVE MG!MigrationSound
  <2>1. MG!EditsStay
    BY <1>1 DEF MigrationInv, SafeKept
  <2>2. MG!FlagsCarried
    BY <1>1 DEF MigrationInv, MG!FlagsCarried, Done, Clean
  <2>3. MG!CurrentCarried
    BY <1>1 DEF MigrationInv, CurrentKept, MG!CurrentCarried
  <2>4. MG!AllCounted
    BY <1>1 DEF MigrationInv, RunSound, CountsKept, Settling, Total, MG!AllCounted, MG!At
  <2> QED BY <2>1, <2>2, <2>3, <2>4 DEF MG!MigrationSound
<1> QED BY <1>1, MigrationInvariance, PTL

-------------------------------------------------------------------------------
(* IdeSwitch: what a switch of the account knows of the processes.         *)
(* Whatever runs while it writes started after it looked, and whatever a   *)
(* failed close left has a reason.                                         *)

(* What a switch may be doing.                                             *)
SwitchCalls == [at : IS!Steps, account : Accounts \union {IS!None}, pids : SUBSET IS!ProcNames,
                db : IS!Databases \union {IS!None}, alone : BOOLEAN]
(* A process the close does not signal, or cannot kill.                    *)
Reason(p) == IdeProcs[p].family \/ IdeProcs[p].guarded \/ IdeProcs[p].name \in {"like", "tools"}
(* A switch that nobody came between, with no other under way.             *)
Apart(c) == isCall[c].alone /\ \A d \in Switches \ {c} : isCall[d].at = "idle"

(* While a switch writes the database, what runs started after it looked.  *)
ClosedSeen(c) == isCall[c].at \in {"locate", "inject"} => IS!Running \subseteq isSince[c]
(* Before it kills, what runs and is not to be killed has a reason or      *)
(* started since.                                                          *)
KillSeen(c) == isCall[c].at = "kill" =>
    \A p \in IS!Running : Reason(p) \/ p \in isSince[c] \/ p \in isCall[c].pids
(* After it killed, what runs has a reason or started since.               *)
RecheckSeen(c) == isCall[c].at = "recheck" =>
    \A p \in IS!Running : Reason(p) \/ p \in isSince[c]
(* What a failed close left had a reason, or started since.                *)
LeftForReason(c) == /\ \A p \in isLeft[c] : Reason(p) \/ p \in isSince[c]
                    /\ isLeft[c] # {} => isCall[c].at = "failed"
(* Nothing started beside a switch that is alone.                          *)
NothingSince(c) == Apart(c) /\ isCall[c].at \notin {"idle", "check", "failed", "done"}
                       => isSince[c] = {}
(* A switch that is alone writes the database the IDE starts with, and the *)
(* index with it.                                                          *)
WrittenAsOne(c) == Apart(c) =>
    /\ isCall[c].at = "inject" => isCall[c].db = IS!Restarts
    /\ isCall[c].at \in {"index", "used", "start", "done"} => isDb[IS!Restarts] = isCall[c].account
    /\ isCall[c].at \in {"used", "start", "done"} => isCurrent = isCall[c].account
(* What holds of each switch.                                              *)
CallSound(c) == /\ ClosedSeen(c) /\ KillSeen(c) /\ RecheckSeen(c) /\ LeftForReason(c)
                /\ NothingSince(c) /\ WrittenAsOne(c)
(* The types of the whole state, the histories included.                   *)
SwitchTypes == /\ IS!TypeOK
               /\ isSince \in [Switches -> SUBSET IS!ProcNames]
               /\ isLeft \in [Switches -> SUBSET IS!ProcNames]
(* The inductive invariant of the switches.                                *)
SwitchInv == SwitchTypes /\ IS!SparesOwn /\ \A c \in Switches : CallSound(c)

(* Lemma: what is told as running grows and shrinks with what is alive.    *)
LEMMA RunningEffect ==
  ASSUME isConfig' = isConfig
  PROVE  /\ isAlive' \subseteq isAlive => IS!Running' \subseteq IS!Running
         /\ \A p : isAlive' = isAlive \union {p} => IS!Running' \subseteq IS!Running \union {p}
         /\ IS!Running \subseteq isAlive
         /\ IS!Restarts' = IS!Restarts
BY DEF IS!Running, IS!Own, IS!Manual, IS!Looks, IS!IsHelper, IS!Restarts

(* Lemma: what is told as running and not collected for closing has a      *)
(* reason.                                                                 *)
LEMMA ClosableEffect ==
  /\ \A p \in IS!Running : p \in IS!Closable \/ Reason(p)
  /\ IS!Telling \subseteq IS!Running
  /\ IS!Closable \subseteq isAlive
  /\ \A p \in IS!Closable : ~IS!Own(p) /\ ~IdeProcs[p].family /\ IdeProcs[p].name # "tools"
BY DEF IS!Running, IS!Closable, IS!Telling, IS!Own, IS!Manual, IS!Looks, IS!IsHelper,
   IS!Family, Reason

(* Lemma: what holds of another switch stays when it keeps its record and  *)
(* nothing new runs unseen by it.                                          *)
LEMMA OthersKeep ==
  ASSUME SwitchInv, NEW d \in Switches,
         isCall'[d].at = isCall[d].at, isCall'[d].pids = isCall[d].pids,
         isLeft'[d] = isLeft[d], isSince[d] \subseteq isSince'[d],
         IS!Running' \subseteq IS!Running \union isSince'[d],
         ~Apart(d)'
  PROVE  CallSound(d)'
<1>1. CallSound(d) /\ \A p : Reason(p)' <=> Reason(p)
  BY DEF SwitchInv, Reason
<1>2. ClosedSeen(d)'
  BY <1>1 DEF CallSound, ClosedSeen
<1>3. KillSeen(d)' /\ RecheckSeen(d)'
  BY <1>1 DEF CallSound, KillSeen, RecheckSeen
<1>4. LeftForReason(d)'
  BY <1>1 DEF CallSound, LeftForReason
<1>5. NothingSince(d)' /\ WrittenAsOne(d)'
  BY DEF NothingSince, WrittenAsOne
<1> QED
  BY <1>2, <1>3, <1>4, <1>5 DEF CallSound

(* Lemma: a step of one switch preserves the invariant when what holds of  *)
(* it stays and the others keep theirs.                                    *)
LEMMA OneMoves ==
  ASSUME SwitchInv, SwitchTypes', NEW c \in Switches, isCall'[c].at # "idle",
         \A d \in Switches \ {c} :
            /\ isCall'[d].at = isCall[d].at /\ isCall'[d].pids = isCall[d].pids
            /\ isLeft'[d] = isLeft[d] /\ isSince[d] \subseteq isSince'[d]
            /\ IS!Running' \subseteq IS!Running \union isSince'[d],
         isCall'[c].pids \subseteq isCall[c].pids \union IS!Closable,
         CallSound(c)'
  PROVE  SwitchInv'
<1>1. ASSUME NEW d \in Switches, d # c PROVE CallSound(d)'
  <2>1. ~Apart(d)'
    BY <1>1 DEF Apart
  <2> QED
    BY <1>1, <2>1, OthersKeep
<1>2. IS!SparesOwn'
  <2>1. ASSUME NEW d \in Switches, NEW p \in isCall'[d].pids
        PROVE  ~IS!Own(p) /\ ~IdeProcs[p].family /\ IdeProcs[p].name # "tools"
    <3>1. p \in isCall[d].pids \/ p \in IS!Closable
      BY <2>1
    <3> QED
      BY <2>1, <3>1, ClosableEffect DEF SwitchInv, IS!SparesOwn
  <2> QED
    BY <2>1 DEF IS!SparesOwn, IS!Own
<1> QED
  BY <1>1, <1>2 DEF SwitchInv

(* Lemma: a step of a switch that starts, kills and asks nobody preserves  *)
(* the invariant when what holds of it stays.                              *)
LEMMA QuietStep ==
  ASSUME SwitchInv, NEW c \in Switches, IS!Processes, NEW call \in SwitchCalls,
         call.at # "idle",
         isCall' = [isCall EXCEPT ![c] = call],
         call.pids \subseteq isCall[c].pids \union IS!Closable,
         \A d \in Switches \ {c} : isSince'[d] = isSince[d] /\ isLeft'[d] = isLeft[d],
         isSince' \in [Switches -> SUBSET IS!ProcNames],
         isLeft' \in [Switches -> SUBSET IS!ProcNames],
         isDb' \in [IS!Databases -> Accounts \union {IS!None}],
         isCurrent' \in Accounts \union {IS!None}, CallSound(c)'
  PROVE  SwitchInv'
<1>1. isCall \in [Switches -> SwitchCalls]
  BY DEF SwitchInv, SwitchTypes, IS!TypeOK, SwitchCalls
<1>2. isCall' \in [Switches -> SwitchCalls] /\ isCall'[c] = call
      /\ \A d \in Switches \ {c} : isCall'[d] = isCall[d]
  BY <1>1
<1>3. SwitchTypes'
  <2>1. /\ isConfig' = isConfig /\ isAlive' = isAlive /\ isTermed' = isTermed
        /\ isUser' = isUser
    BY DEF IS!Processes
  <2> QED
    BY <1>2, <2>1 DEF SwitchInv, SwitchTypes, IS!TypeOK, SwitchCalls
<1>4. IS!Running' = IS!Running
  BY DEF IS!Processes, IS!Running, IS!Own, IS!Manual, IS!Looks, IS!IsHelper
<1> QED
  BY <1>2, <1>3, <1>4, OneMoves

(* Lemma: what going on does to the record of a switch.                    *)
LEMMA GoesEffect ==
  ASSUME SwitchInv, NEW c \in Switches, NEW step \in IS!Steps, IS!Goes(c, step)
  PROVE  \E call \in SwitchCalls :
            /\ isCall' = [isCall EXCEPT ![c] = call] /\ isCall'[c] = call
            /\ call.at = step /\ call.pids = isCall[c].pids /\ call.db = isCall[c].db
            /\ call.account = isCall[c].account /\ call.alone = isCall[c].alone
            /\ \A d \in Switches \ {c} : isCall'[d] = isCall[d]
<1> DEFINE call == [isCall[c] EXCEPT !.at = step]
<1>1. isCall \in [Switches -> SwitchCalls]
  BY DEF SwitchInv, SwitchTypes, IS!TypeOK, SwitchCalls
<1>2. /\ call \in SwitchCalls /\ call.at = step /\ call.pids = isCall[c].pids
      /\ call.db = isCall[c].db /\ call.account = isCall[c].account
      /\ call.alone = isCall[c].alone
  BY <1>1 DEF SwitchCalls
<1>3. isCall' = [isCall EXCEPT ![c] = call]
  BY <1>1 DEF IS!Goes
<1>4. isCall'[c] = call /\ \A d \in Switches \ {c} : isCall'[d] = isCall[d]
  BY <1>1, <1>3
<1> HIDE DEF call
<1> QED
  BY <1>2, <1>3, <1>4

(* Lemma: a step that only goes on has the effects of QuietStep.           *)
LEMMA GoStep ==
  ASSUME SwitchInv, NEW c \in Switches, NEW step \in IS!Steps \ {"idle"}, IS!Goes(c, step),
         IS!Processes,
         \A d \in Switches \ {c} : isSince'[d] = isSince[d] /\ isLeft'[d] = isLeft[d],
         isSince' \in [Switches -> SUBSET IS!ProcNames],
         isLeft' \in [Switches -> SUBSET IS!ProcNames],
         isDb' \in [IS!Databases -> Accounts \union {IS!None}],
         isCurrent' \in Accounts \union {IS!None},
         (/\ isCall'[c].at = step /\ isCall'[c].pids = isCall[c].pids
          /\ isCall'[c].db = isCall[c].db
          /\ isCall'[c].account = isCall[c].account /\ isCall'[c].alone = isCall[c].alone
          /\ \A d \in Switches \ {c} : isCall'[d] = isCall[d])
            => CallSound(c)'
  PROVE  SwitchInv'
<1>1. PICK call \in SwitchCalls :
            /\ isCall' = [isCall EXCEPT ![c] = call] /\ isCall'[c] = call
            /\ call.at = step /\ call.pids = isCall[c].pids /\ call.db = isCall[c].db
            /\ call.account = isCall[c].account /\ call.alone = isCall[c].alone
            /\ \A d \in Switches \ {c} : isCall'[d] = isCall[d]
  BY GoesEffect
<1>2. CallSound(c)'
  BY <1>1
<1> QED
  BY <1>1, <1>2, QuietStep

(* Lemma: the processes stay as they are told.                             *)
LEMMA SameHost ==
  ASSUME IS!Processes
  PROVE  /\ IS!Running' = IS!Running /\ IS!Restarts' = IS!Restarts
         /\ IS!Closable' = IS!Closable
<1>1. isConfig' = isConfig /\ isAlive' = isAlive
  BY DEF IS!Processes
<1>2. IS!Running' = IS!Running /\ IS!Closable' = IS!Closable
  BY <1>1 DEF IS!Running, IS!Closable, IS!Family, IS!Own, IS!Manual, IS!Looks, IS!IsHelper
<1>3. IS!Restarts' = IS!Restarts
  BY <1>1, Zenon DEF IS!Restarts
<1> QED
  BY <1>2, <1>3

(* Lemma: what is stored keeps to its types.                               *)
LEMMA StoredTypes ==
  ASSUME SwitchInv
  PROVE  /\ isSince \in [Switches -> SUBSET IS!ProcNames]
         /\ isLeft \in [Switches -> SUBSET IS!ProcNames]
         /\ isDb \in [IS!Databases -> Accounts \union {IS!None}]
         /\ isCurrent \in Accounts \union {IS!None}
         /\ isCall \in [Switches -> SwitchCalls]
         /\ isAlive \subseteq IS!ProcNames /\ isTermed \subseteq IS!ProcNames
BY DEF SwitchInv, SwitchTypes, IS!TypeOK, SwitchCalls

(* Lemma: the parts of what holds of each switch.                          *)
LEMMA SoundParts ==
  ASSUME SwitchInv, NEW c \in Switches
  PROVE  /\ ClosedSeen(c) /\ KillSeen(c) /\ RecheckSeen(c) /\ LeftForReason(c)
         /\ NothingSince(c) /\ WrittenAsOne(c)
         /\ isCall[c].at # "failed" => isLeft[c] = {}
BY DEF SwitchInv, CallSound, LeftForReason

(* Lemma: looking whether the IDE runs preserves the invariant.            *)
LEMMA RunningCheckStep ==
  ASSUME SwitchInv, NEW c \in Switches, IS!Check(c)
  PROVE  SwitchInv'
<1> DEFINE step == IF IS!Running # {} THEN "collect" ELSE "locate"
<1>1. /\ step \in IS!Steps \ {"idle"} /\ step \in {"collect", "locate"}
      /\ (step = "locate" => IS!Running = {})
  BY DEF IS!Steps
<1>2. IS!Goes(c, step) /\ IS!Looked(c) /\ IS!Processes /\ IS!Stored /\ isLeft' = isLeft
      /\ isCall[c].at = "check"
  BY DEF IS!Check, IS!At
<1> HIDE DEF step
<1>4. /\ isSince' \in [Switches -> SUBSET IS!ProcNames] /\ isSince'[c] = {}
      /\ \A d \in Switches \ {c} : isSince'[d] = isSince[d]
  BY <1>2, StoredTypes DEF IS!Looked
<1>5. IS!Running' = IS!Running /\ isLeft'[c] = {} /\ isLeft' = isLeft
  BY <1>2, SameHost, SoundParts
<1>6. ASSUME isCall'[c].at = step PROVE CallSound(c)'
  BY <1>1, <1>4, <1>5, <1>6 DEF CallSound, ClosedSeen, KillSeen, RecheckSeen, LeftForReason,
     NothingSince, WrittenAsOne
<1>7. isDb' = isDb /\ isCurrent' = isCurrent
  BY <1>2 DEF IS!Stored
<1> QED
  BY <1>1, <1>2, <1>4, <1>5, <1>6, <1>7, GoStep, StoredTypes

(* Lemma: collecting the processes to close preserves the invariant.       *)
LEMMA CollectStep ==
  ASSUME SwitchInv, NEW c \in Switches, IS!Collect(c) \/ IS!Force(c)
  PROVE  SwitchInv'
<1>1. /\ IS!Looked(c) /\ IS!Processes /\ IS!Stored /\ isLeft' = isLeft
      /\ isCall[c].at \in {"collect", "force"}
  BY DEF IS!Collect, IS!Force, IS!At
<1>2. PICK call \in SwitchCalls :
         /\ isCall' = [isCall EXCEPT ![c] = call]
         /\ call.pids \in {IS!Closable, {}}
         /\ \/ call.at = "recheck" /\ IS!Closable = {}
            \/ call.at = "ask"
            \/ call.at = "kill" /\ (call.pids = IS!Closable \/ IS!Running = {})
  <2>0. isCall \in [Switches -> SwitchCalls] /\ IS!Closable \subseteq IS!ProcNames
    BY StoredTypes, ClosableEffect
  <2>1. CASE IS!Collect(c)
    <3> DEFINE call == [isCall[c] EXCEPT !.pids = IS!Closable,
                            !.at = IF IS!Closable = {} THEN "recheck" ELSE "ask"]
    <3>1. isCall' = [isCall EXCEPT ![c] = call]
      BY <2>0, <2>1 DEF IS!Collect
    <3>2. /\ call \in SwitchCalls /\ call.pids = IS!Closable
          /\ call.at = IF IS!Closable = {} THEN "recheck" ELSE "ask"
      BY <2>0 DEF SwitchCalls, IS!Steps
    <3> QED
      BY <3>1, <3>2
  <2>2. CASE IS!Force(c)
    <3> DEFINE call == [isCall[c] EXCEPT !.at = "kill",
                            !.pids = IF IS!Running # {} THEN IS!Closable ELSE {}]
    <3>1. isCall' = [isCall EXCEPT ![c] = call]
      BY <2>0, <2>2 DEF IS!Force
    <3>2. /\ call \in SwitchCalls /\ call.at = "kill"
          /\ call.pids = IF IS!Running # {} THEN IS!Closable ELSE {}
      BY <2>0 DEF SwitchCalls, IS!Steps
    <3> QED
      BY <3>1, <3>2
  <2> QED
    BY <2>1, <2>2
<1>3. isCall'[c] = call
  BY <1>2, StoredTypes
<1>4. /\ isSince' \in [Switches -> SUBSET IS!ProcNames] /\ isSince'[c] = {}
      /\ \A d \in Switches \ {c} : isSince'[d] = isSince[d]
  BY <1>1, StoredTypes DEF IS!Looked
<1>5. IS!Running' = IS!Running /\ isLeft'[c] = {} /\ isLeft' = isLeft
  BY <1>1, SameHost, SoundParts
<1>6. CallSound(c)'
  BY <1>1, <1>2, <1>3, <1>4, <1>5, ClosableEffect DEF CallSound, ClosedSeen, KillSeen,
     RecheckSeen, LeftForReason, NothingSince, WrittenAsOne, Reason
<1>7. isDb' = isDb /\ isCurrent' = isCurrent /\ call.at # "idle"
  BY <1>1, <1>2 DEF IS!Stored
<1> QED
  BY <1>1, <1>2, <1>4, <1>5, <1>6, <1>7, QuietStep, StoredTypes

(* Lemma: the database that is found while nothing of the IDE runs is the  *)
(* one the IDE starts with.                                                *)
LEMMA LocatedAlone ==
  ASSUME IS!Telling = {}
  PROVE  IS!Located = {IS!Restarts}
<1>1. CASE isConfig.dir
  BY <1>1, Zenon DEF IS!Located, IS!Restarts
<1>2. CASE ~isConfig.dir
  BY <1>2, Zenon DEF IS!Located
<1> QED
  BY <1>1, <1>2

(* Lemma: the database that is found is one there is.                      *)
LEMMA LocatedKnown ==
  ASSUME IS!IdeSwitchAssumption, isAlive \subseteq IS!ProcNames
  PROVE  IS!Located \subseteq IS!Databases /\ IS!Restarts \in IS!Databases
<1>1. IS!Restarts \in IS!Databases
  <2>1. IS!Restarts \in {"custom", "portable", "standard"}
    BY Zenon DEF IS!Restarts
  <2> QED
    BY <2>1 DEF IS!Databases
<1>2. ASSUME NEW p \in IS!Telling PROVE IS!Directory(p) \in IS!Databases
  <2>1. IdeProcs[p].db \in IS!Databases
    BY DEF IS!Telling, IS!IdeSwitchAssumption
  <2> QED
    BY <2>1 DEF IS!Directory, IS!Beside, IS!Databases
<1>3. \/ IS!Located = {"custom"} \/ IS!Located = {IS!Restarts}
      \/ IS!Located = {IS!Directory(p) : p \in IS!Telling}
  <2>1. CASE isConfig.dir
    BY <2>1, Zenon DEF IS!Located
  <2>2. CASE ~isConfig.dir /\ IS!Telling # {}
    BY <2>2, Zenon DEF IS!Located
  <2>3. CASE IS!Telling = {}
    BY <2>3, LocatedAlone
  <2> QED
    BY <2>1, <2>2, <2>3
<1> QED
  BY <1>1, <1>2, <1>3 DEF IS!Databases

(* Lemma: a switch that begins ends the loneliness of those under way and  *)
(* preserves the invariant.                                                *)
LEMMA SwitchBegins ==
  ASSUME SwitchInv, NEW c \in Switches, IS!Begin(c)
  PROVE  SwitchInv'
<1>1. PICK account \in Accounts, at \in {"check", "failed"} :
        isCall' = [d \in Switches |->
               IF d = c THEN [isCall[c] EXCEPT !.at = at, !.account = account,
                                               !.alone = \A e \in Switches \ {c} :
                                    isCall[e].at \in {"idle", "failed", "done"}]
               ELSE [isCall[d] EXCEPT !.alone = @ /\ isCall[d].at \in {"idle", "failed", "done"}]]
  BY DEF IS!Begin
<1>2. isCall[c].at = "idle" /\ IS!Processes /\ IS!Stored /\ UNCHANGED <<isSince, isLeft>>
  BY DEF IS!Begin, IS!At, IS!Seen
<1>3. /\ isCall'[c] \in SwitchCalls /\ isCall'[c].at = at
      /\ isCall'[c].pids = isCall[c].pids
  <2> DEFINE alone == \A e \in Switches \ {c} : isCall[e].at \in {"idle", "failed", "done"}
  <2>1. isCall'[c] = [isCall[c] EXCEPT !.at = at, !.account = account, !.alone = alone]
    BY <1>1
  <2>2. alone \in BOOLEAN /\ isCall[c] \in SwitchCalls
    BY StoredTypes
  <2> HIDE DEF alone
  <2> QED
    BY <2>1, <2>2 DEF SwitchCalls, IS!Steps
<1>4. ASSUME NEW d \in Switches \ {c}
      PROVE  /\ isCall'[d] \in SwitchCalls
             /\ isCall'[d].at = isCall[d].at /\ isCall'[d].pids = isCall[d].pids
  <2>1. isCall[d] \in SwitchCalls
    BY StoredTypes
  <2>2. isCall'[d] = [isCall[d] EXCEPT !.alone = @ /\ isCall[d].at \in {"idle", "failed", "done"}]
    BY <1>1
  <2> QED
    BY <2>1, <2>2 DEF SwitchCalls
<1>5. isCall' \in [Switches -> SwitchCalls]
  <2>1. DOMAIN isCall' = Switches /\ isCall' = [d \in DOMAIN isCall' |-> isCall'[d]]
    BY <1>1
  <2>2. \A d \in Switches : isCall'[d] \in SwitchCalls
    BY <1>3, <1>4
  <2> QED
    BY <2>1, <2>2
<1>6. SwitchTypes'
  BY <1>2, <1>5 DEF SwitchInv, SwitchTypes, IS!TypeOK, SwitchCalls, IS!Processes, IS!Stored
<1>7. IS!Running' = IS!Running /\ isLeft'[c] = {}
  BY <1>2, SameHost, SoundParts
<1>8. CallSound(c)'
  BY <1>3, <1>7 DEF CallSound, ClosedSeen, KillSeen, RecheckSeen, LeftForReason,
     NothingSince,
     WrittenAsOne
<1> QED
  BY <1>2, <1>3, <1>4, <1>6, <1>7, <1>8, OneMoves

(* Lemma: asking processes to end preserves the invariant.                 *)
LEMMA AskStep ==
  ASSUME SwitchInv, NEW c \in Switches, IS!Ask(c)
  PROVE  SwitchInv'
<1>1. /\ isCall[c].at = "ask" /\ IS!Stored /\ UNCHANGED <<isConfig, isAlive, isUser,
                                                          isSince, isLeft>>
      /\ isTermed' \subseteq isTermed \union isAlive
      /\ isCall' = [isCall EXCEPT ![c].at = "wait", ![c].pids = {}]
  BY DEF IS!Ask, IS!At, IS!Seen
<1>2. /\ isCall' \in [Switches -> SwitchCalls] /\ isCall'[c].at = "wait"
      /\ isCall'[c].pids = {}
      /\ isCall'[c].alone = isCall[c].alone
      /\ \A d \in Switches \ {c} : isCall'[d] = isCall[d]
  BY ZenonT(60), <1>1, StoredTypes DEF SwitchCalls, IS!Steps
<1>3. SwitchTypes'
  BY <1>1, <1>2 DEF SwitchInv, SwitchTypes, IS!TypeOK, SwitchCalls, IS!Stored
<1>4. IS!Running' \subseteq IS!Running /\ isLeft'[c] = {}
  BY <1>1, RunningEffect, SoundParts
<1>5. Apart(c)' => Apart(c)
  BY <1>2 DEF Apart
<1>6. CallSound(c)'
  BY <1>1, <1>2, <1>4, <1>5, SoundParts DEF CallSound, ClosedSeen, KillSeen, RecheckSeen,
     LeftForReason,
     NothingSince, WrittenAsOne
<1> QED
  BY <1>1, <1>2, <1>3, <1>4, <1>6, OneMoves

(* Lemma: killing the ones that are left preserves the invariant.          *)
LEMMA KillStep ==
  ASSUME SwitchInv, NEW c \in Switches, IS!Kill(c)
  PROVE  SwitchInv'
<1>1. /\ isCall[c].at = "kill" /\ IS!Stored /\ UNCHANGED <<isConfig, isUser, isSince,
                                                           isLeft>>
      /\ isAlive' = isAlive \ IS!Killed(c) /\ isTermed' \subseteq isTermed
      /\ isCall' = [isCall EXCEPT ![c].at = "recheck", ![c].pids = {}]
  BY DEF IS!Kill, IS!At, IS!Seen
<1>2. /\ isCall' \in [Switches -> SwitchCalls] /\ isCall'[c].at = "recheck"
      /\ isCall'[c].pids = {}
      /\ isCall'[c].alone = isCall[c].alone
      /\ \A d \in Switches \ {c} : isCall'[d] = isCall[d]
  BY ZenonT(60), <1>1, StoredTypes DEF SwitchCalls, IS!Steps
<1>3. SwitchTypes'
  BY <1>1, <1>2 DEF SwitchInv, SwitchTypes, IS!TypeOK, SwitchCalls, IS!Stored
<1>4. IS!Running' \subseteq IS!Running /\ IS!Running' \subseteq isAlive' /\ isLeft'[c] = {}
  <2>1. IS!Running' \subseteq isAlive'
    BY DEF IS!Running
  <2> QED
    BY <1>1, <2>1, RunningEffect, SoundParts
<1>5. Apart(c)' => Apart(c)
  BY <1>2 DEF Apart
<1>6. RecheckSeen(c)'
  <2>1. ASSUME NEW p \in IS!Running' PROVE Reason(p) \/ p \in isSince[c]
    <3>1. p \in IS!Running /\ (p \in isCall[c].pids => IdeProcs[p].guarded)
      BY <1>1, <1>4, <2>1 DEF IS!Killed
    <3> QED
      BY <1>1, <3>1, SoundParts DEF KillSeen, Reason
  <2> QED
    BY <1>1, <2>1 DEF RecheckSeen, Reason
<1>7. CallSound(c)'
  BY <1>1, <1>2, <1>4, <1>5, <1>6, SoundParts DEF CallSound, ClosedSeen, KillSeen,
     LeftForReason,
     NothingSince, WrittenAsOne
<1> QED
  BY <1>1, <1>2, <1>3, <1>4, <1>7, OneMoves

(* Lemma: looking again after the kill preserves the invariant.            *)
LEMMA RecheckStep ==
  ASSUME SwitchInv, NEW c \in Switches, IS!Recheck(c)
  PROVE  SwitchInv'
<1> DEFINE step == IF IS!Running # {} THEN "failed" ELSE "locate"
<1>1. /\ step \in IS!Steps \ {"idle"} /\ step \in {"failed", "locate"}
      /\ step = "locate" <=> IS!Running = {}
  BY DEF IS!Steps
<1>2. /\ IS!Goes(c, step) /\ IS!Processes /\ IS!Stored /\ isCall[c].at = "recheck"
      /\ isLeft' = [isLeft EXCEPT ![c] = IS!Running]
      /\ isSince' = [isSince EXCEPT ![c] = IF IS!Running # {} THEN @ ELSE {}]
  BY DEF IS!Recheck, IS!At
<1> HIDE DEF step
<1>3. IS!Running \subseteq IS!ProcNames
  BY StoredTypes DEF IS!Running
<1>4. /\ isSince' \in [Switches -> SUBSET IS!ProcNames]
      /\ isLeft' \in [Switches -> SUBSET IS!ProcNames]
      /\ isSince'[c] = IF IS!Running # {} THEN isSince[c] ELSE {}
      /\ isLeft'[c] = IS!Running
      /\ \A d \in Switches \ {c} : isSince'[d] = isSince[d] /\ isLeft'[d] = isLeft[d]
  BY <1>2, <1>3, StoredTypes
<1>5. IS!Running' = IS!Running
  BY <1>2, SameHost
<1>6. ASSUME isCall'[c].at = step PROVE CallSound(c)'
  <2>1. LeftForReason(c)'
    BY <1>1, <1>2, <1>4, <1>5, <1>6, SoundParts DEF LeftForReason, RecheckSeen, Reason
  <2> QED
    BY <1>1, <1>4, <1>5, <1>6, <2>1 DEF CallSound, ClosedSeen, KillSeen, RecheckSeen,
       NothingSince, WrittenAsOne
<1>7. isDb' = isDb /\ isCurrent' = isCurrent
  BY <1>2 DEF IS!Stored
<1> QED
  BY <1>1, <1>2, <1>4, <1>6, <1>7, GoStep, StoredTypes

(* Lemma: finding the database preserves the invariant.                    *)
LEMMA LocateStep ==
  ASSUME IS!IdeSwitchAssumption, SwitchInv, NEW c \in Switches, IS!Locate(c)
  PROVE  SwitchInv'
<1>1. /\ isCall[c].at = "locate" /\ IS!Processes /\ IS!Stored /\ UNCHANGED <<isSince,
                                                                             isLeft>>
  BY DEF IS!Locate, IS!At, IS!Seen
<1>2. PICK db \in IS!Located, at \in {"inject", "failed"} :
        isCall' = [isCall EXCEPT ![c].db = db, ![c].at = at]
  BY DEF IS!Locate
<1>3. db \in IS!Databases
  BY LocatedKnown, StoredTypes
<1> DEFINE call == [isCall[c] EXCEPT !.db = db, !.at = at]
<1>4. /\ isCall' = [isCall EXCEPT ![c] = call] /\ call \in SwitchCalls /\ call.at = at
      /\ call.pids = isCall[c].pids /\ call.db = db /\ call.alone = isCall[c].alone
      /\ call.account = isCall[c].account
  BY <1>2, <1>3, StoredTypes DEF SwitchCalls, IS!Steps
<1> HIDE DEF call
<1>5. isCall'[c] = call /\ \A d \in Switches \ {c} : isCall'[d] = isCall[d]
  BY <1>4, StoredTypes
<1>6. IS!Running' = IS!Running /\ IS!Restarts' = IS!Restarts /\ isLeft'[c] = {}
  BY <1>1, SameHost, SoundParts
<1>7. Apart(c)' => Apart(c)
  BY <1>4, <1>5 DEF Apart
<1>8. ASSUME Apart(c) PROVE isSince[c] = {} /\ db = IS!Restarts
  <2>1. isSince[c] = {} /\ IS!Running = {}
    BY <1>1, <1>8, SoundParts DEF NothingSince, ClosedSeen
  <2>2. IS!Located = {IS!Restarts}
    BY <2>1, ClosableEffect, LocatedAlone
  <2> QED
    BY <2>1, <2>2
<1>9. CallSound(c)'
  BY <1>1, <1>4, <1>5, <1>6, <1>7, <1>8, SoundParts DEF CallSound, ClosedSeen, KillSeen,
     RecheckSeen,
     LeftForReason, NothingSince, WrittenAsOne
<1>10. isDb' = isDb /\ isCurrent' = isCurrent /\ call.at # "idle"
  BY <1>1, <1>4 DEF IS!Stored
<1> QED
  BY <1>1, <1>4, <1>9, <1>10, QuietStep, StoredTypes

(* Lemma: waiting, failing, and writing the database, the index and the    *)
(* use of the account preserve the invariant.                              *)
LEMMA WriteStep ==
  ASSUME IS!IdeSwitchAssumption, SwitchInv, NEW c \in Switches,
         \/ IS!Wait(c) \/ IS!Fail(c) \/ IS!Inject(c) \/ IS!Index(c) \/ IS!Use(c)
  PROVE  SwitchInv'
<1>1. PICK from \in IS!Steps, to \in IS!Steps \ {"idle"} :
        /\ isCall[c].at = from /\ IS!Goes(c, to) /\ IS!Processes /\ UNCHANGED <<isSince,
                                                                                isLeft>>
        /\ \/ from = "wait" /\ to = "force" /\ IS!Stored
           \/ from \in {"inject", "index", "used", "start"} /\ to = "failed" /\ IS!Stored
           \/ /\ from = "inject" /\ to = "index" /\ isCurrent' = isCurrent
              /\ isDb' = [isDb EXCEPT ![isCall[c].db] = isCall[c].account]
           \/ from = "index" /\ to = "used" /\ isDb' = isDb /\ isCurrent' = isCall[c].account
           \/ from = "used" /\ to = "start" /\ IS!Stored
  BY Zenon DEF IS!Wait, IS!Fail, IS!Fails, IS!Inject, IS!Index, IS!Use, IS!At, IS!Seen,
     IS!Steps
<1>2. /\ isDb' \in [IS!Databases -> Accounts \union {IS!None}]
      /\ isCurrent' \in Accounts \union {IS!None}
  <2>1. isCall[c].account \in Accounts \union {IS!None}
    BY StoredTypes DEF SwitchCalls
  <2> QED
    BY <1>1, <2>1, StoredTypes DEF IS!Stored
<1>3. IS!Running' = IS!Running /\ IS!Restarts' = IS!Restarts /\ isLeft'[c] = {}
  <2>1. isCall[c].at # "failed"
    BY <1>1
  <2> QED
    BY <1>1, <2>1, SameHost, SoundParts
<1>4. ASSUME /\ isCall'[c].at = to /\ isCall'[c].pids = isCall[c].pids
             /\ isCall'[c].db = isCall[c].db
             /\ isCall'[c].account = isCall[c].account /\ isCall'[c].alone = isCall[c].alone
             /\ (\A d \in Switches \ {c} : isCall'[d] = isCall[d])
      PROVE  CallSound(c)'
  <2>1. Apart(c)' => Apart(c)
    BY <1>4 DEF Apart
  <2>2. IS!Restarts \in IS!Databases
    BY LocatedKnown, StoredTypes
  <2>3. WrittenAsOne(c)'
    <3> SUFFICES ASSUME Apart(c)
                 PROVE  /\ to # "inject"
                        /\ to \in {"index", "used", "start", "done"} =>
                               isDb'[IS!Restarts] = isCall[c].account
                        /\ to \in {"used", "start", "done"} => isCurrent' = isCall[c].account
      BY <1>3, <1>4, <2>1 DEF WrittenAsOne
    <3>1. WrittenAsOne(c)
      BY SoundParts
    <3>2. CASE from = "inject" /\ to = "index"
      BY <1>1, <2>2, <3>1, <3>2, StoredTypes DEF WrittenAsOne
    <3>3. CASE ~(from = "inject" /\ to = "index")
      BY <1>1, <3>1, <3>3 DEF WrittenAsOne, IS!Stored
    <3> QED
      BY <3>2, <3>3
  <2>4. NothingSince(c)'
    BY <1>1, <1>4, <2>1, SoundParts DEF NothingSince
  <2> QED
    BY <1>1, <1>3, <1>4, <2>3, <2>4 DEF CallSound, ClosedSeen, KillSeen, RecheckSeen,
       LeftForReason
<1> QED
  BY <1>1, <1>2, <1>4, GoStep, StoredTypes

(* Lemma: the IDE that is started is nowhere counted as closed.            *)
LEMMA StartedEffect ==
  ASSUME SwitchInv, NEW p \in IS!ProcNames, IS!Started(p), isConfig' = isConfig
  PROVE  /\ isSince' \in [Switches -> SUBSET IS!ProcNames]
         /\ isAlive' \subseteq IS!ProcNames
         /\ \A d \in Switches : isSince'[d] = isSince[d] \union {p}
         /\ IS!Running' \subseteq IS!Running \union {p}
         /\ isTermed' = isTermed
<1>1. isAlive' = isAlive \union {p} /\ isTermed' = isTermed
      /\ isSince' = [d \in Switches |-> isSince[d] \union {p}]
  BY DEF IS!Started
<1> QED
  BY <1>1, StoredTypes, RunningEffect

(* Lemma: starting the IDE preserves the invariant.                        *)
LEMMA IdeStartStep ==
  ASSUME SwitchInv, NEW c \in Switches, IS!Start(c)
  PROVE  SwitchInv'
<1>1. PICK p \in IS!ProcNames : IS!Started(p)
  BY DEF IS!Start
<1>2. /\ isCall[c].at = "start" /\ IS!Goes(c, "done") /\ IS!Stored /\ UNCHANGED <<isConfig,
                                                                                  isUser,
                                                                                  isLeft>>
  BY DEF IS!Start, IS!At
<1>3. "done" \in IS!Steps
  BY DEF IS!Steps
<1>4. PICK call \in SwitchCalls :
            /\ isCall' = [isCall EXCEPT ![c] = call] /\ isCall'[c] = call
            /\ call.at = "done" /\ call.pids = isCall[c].pids /\ call.db = isCall[c].db
            /\ call.account = isCall[c].account /\ call.alone = isCall[c].alone
            /\ \A d \in Switches \ {c} : isCall'[d] = isCall[d]
  BY <1>2, <1>3, GoesEffect
<1>5. isCall' \in [Switches -> SwitchCalls]
  BY <1>4, StoredTypes
<1>6. /\ isSince' \in [Switches -> SUBSET IS!ProcNames] /\ isAlive' \subseteq IS!ProcNames
      /\ \A d \in Switches : isSince'[d] = isSince[d] \union {p}
      /\ IS!Running' \subseteq IS!Running \union {p}
      /\ isTermed' = isTermed
  BY <1>1, <1>2, StartedEffect
<1>7. SwitchTypes'
  BY <1>2, <1>5, <1>6 DEF SwitchInv, SwitchTypes, IS!TypeOK, SwitchCalls, IS!Stored
<1>8. IS!Restarts' = IS!Restarts /\ isLeft'[c] = {}
  BY <1>2, RunningEffect, SoundParts
<1>9. Apart(c)' => Apart(c)
  BY <1>4 DEF Apart
<1>10. CallSound(c)'
  BY <1>2, <1>4, <1>6, <1>8, <1>9, SoundParts DEF CallSound, ClosedSeen, KillSeen,
     RecheckSeen,
     LeftForReason, NothingSince, WrittenAsOne, IS!Stored
<1> QED
  BY <1>2, <1>4, <1>6, <1>7, <1>10, OneMoves

(* Lemma: what users and processes do by themselves preserves the          *)
(* invariant when what starts is seen.                                     *)
LEMMA HostStep ==
  ASSUME SwitchInv, SwitchTypes', UNCHANGED <<isConfig, isDb, isCurrent, isLeft>>,
         \A c \in Switches :
            /\ isCall'[c].at = isCall[c].at /\ isCall'[c].pids = isCall[c].pids
            /\ isCall'[c].db = isCall[c].db /\ isCall'[c].account = isCall[c].account
            /\ isCall'[c].alone => isCall[c].alone
            /\ isSince[c] \subseteq isSince'[c]
            /\ IS!Running' \subseteq IS!Running \union isSince'[c]
            /\ isCall'[c].alone /\ isCall[c].at \notin {"idle", "check", "failed", "done"}
                 => isSince'[c] = isSince[c]
  PROVE  SwitchInv'
<1>1. IS!Restarts' = IS!Restarts
  BY RunningEffect
<1>2. ASSUME NEW c \in Switches PROVE CallSound(c)'
  <2>1. Apart(c)' => Apart(c)
    BY DEF Apart
  <2>2. ClosedSeen(c)' /\ KillSeen(c)' /\ RecheckSeen(c)'
    BY SoundParts DEF ClosedSeen, KillSeen, RecheckSeen, Reason
  <2>3. LeftForReason(c)'
    BY SoundParts DEF LeftForReason, Reason
  <2>4. NothingSince(c)'
    BY <2>1, SoundParts DEF NothingSince, Apart
  <2>5. WrittenAsOne(c)'
    BY <1>1, <2>1, SoundParts DEF WrittenAsOne
  <2> QED
    BY <2>2, <2>3, <2>4, <2>5 DEF CallSound
<1>3. IS!SparesOwn'
  BY DEF SwitchInv, IS!SparesOwn, IS!Own
<1> QED
  BY <1>2, <1>3 DEF SwitchInv

(* Lemma: a process that ends preserves the invariant.                     *)
LEMMA ExitStep ==
  ASSUME SwitchInv, NEW p \in IS!ProcNames, IS!Exit(p)
  PROVE  SwitchInv'
<1>1. /\ isAlive' \subseteq isAlive /\ isTermed' \subseteq isTermed
      /\ UNCHANGED <<isConfig, isUser, isCall, isSince, isLeft, isDb, isCurrent>>
  BY DEF IS!Exit, IS!Stored, IS!Seen
<1>2. SwitchTypes'
  BY <1>1 DEF SwitchInv, SwitchTypes, IS!TypeOK
<1>3. IS!Running' \subseteq IS!Running
  BY <1>1, RunningEffect
<1> QED
  BY <1>1, <1>2, <1>3, HostStep

(* Lemma: a program that a user starts preserves the invariant.            *)
LEMMA UserStep ==
  ASSUME IS!IdeSwitchAssumption, SwitchInv, NEW p \in IdeUsers, IS!UserStarts(p)
  PROVE  SwitchInv'
<1>1. /\ IS!Started(p) /\ UNCHANGED <<isConfig, isLeft, isDb, isCurrent>>
      /\ isUser' \in 0..MaxUser
      /\ isCall' = [c \in Switches |->
                      [isCall[c] EXCEPT !.alone = @ /\ isCall[c].at \in {"idle", "failed", "done"}]]
  BY DEF IS!UserStarts, IS!Stored, IS!IdeSwitchAssumption, SwitchInv, SwitchTypes, IS!TypeOK
<1>2. ASSUME NEW c \in Switches
      PROVE  /\ isCall'[c] \in SwitchCalls
             /\ isCall'[c].at = isCall[c].at /\ isCall'[c].pids = isCall[c].pids
             /\ isCall'[c].db = isCall[c].db /\ isCall'[c].account = isCall[c].account
             /\ isCall'[c].alone <=> isCall[c].alone /\ isCall[c].at \in {"idle", "failed", "done"}
  <2>1. isCall[c] \in SwitchCalls
    BY StoredTypes
  <2>2. isCall'[c] = [isCall[c] EXCEPT !.alone = @ /\ isCall[c].at \in {"idle", "failed", "done"}]
    BY <1>1
  <2> QED
    BY <2>1, <2>2 DEF SwitchCalls
<1>3. isCall' \in [Switches -> SwitchCalls]
  <2>1. DOMAIN isCall' = Switches /\ isCall' = [d \in DOMAIN isCall' |-> isCall'[d]]
    BY <1>1
  <2> QED
    BY <1>2, <2>1
<1>4. p \in IS!ProcNames
  BY DEF IS!IdeSwitchAssumption
<1>5. /\ isSince' \in [Switches -> SUBSET IS!ProcNames] /\ isAlive' \subseteq IS!ProcNames
      /\ \A d \in Switches : isSince'[d] = isSince[d] \union {p}
      /\ IS!Running' \subseteq IS!Running \union {p}
      /\ isTermed' = isTermed
  BY <1>1, <1>4, StartedEffect
<1>6. SwitchTypes'
  BY <1>1, <1>3, <1>5 DEF SwitchInv, SwitchTypes, IS!TypeOK, SwitchCalls
<1> QED
  BY <1>1, <1>2, <1>5, <1>6, HostStep

(* Lemma: a host on which nobody switches satisfies the invariant.         *)
LEMMA SwitchInit == ASSUME IS!IdeSwitchAssumption, IS!Init PROVE SwitchInv
<1> DEFINE call == [at |-> "idle", account |-> IS!None, pids |-> {}, db |-> IS!None, alone |-> TRUE]
<1>1. /\ isCall = [c \in Switches |-> call] /\ call \in SwitchCalls /\ call.at = "idle"
      /\ call.pids = {}
  BY DEF IS!Init, SwitchCalls, IS!Steps
<1> HIDE DEF call
<1>2. SwitchTypes
  BY <1>1 DEF IS!Init, SwitchTypes, IS!TypeOK, SwitchCalls, IS!IdeSwitchAssumption
<1>3. \A c \in Switches : isCall[c].at = "idle" /\ isCall[c].pids = {} /\ isLeft[c] = {}
  BY <1>1 DEF IS!Init
<1> QED
  BY <1>2, <1>3 DEF SwitchInv, IS!SparesOwn, CallSound, ClosedSeen, KillSeen, RecheckSeen,
     LeftForReason, NothingSince, WrittenAsOne

(* Lemma: every step of the switches and the host preserves the invariant. *)
LEMMA SwitchStep ==
  ASSUME IS!IdeSwitchAssumption, SwitchInv, [IS!Next]_(IS!isVars)
  PROVE  SwitchInv'
<1>1. CASE UNCHANGED IS!isVars
  <2>1. SwitchTypes' /\ IS!Running' = IS!Running
    BY <1>1 DEF IS!isVars, SwitchInv, SwitchTypes, IS!TypeOK, IS!Running, IS!Own, IS!Manual,
       IS!Looks, IS!IsHelper
  <2> QED
    BY <1>1, <2>1, HostStep DEF IS!isVars
<1>2. CASE \E c \in Switches : IS!Begin(c) \/ IS!Check(c) \/ IS!Collect(c) \/ IS!Force(c)
  BY <1>2, SwitchBegins, RunningCheckStep, CollectStep
<1>3. CASE \E c \in Switches : IS!Ask(c) \/ IS!Kill(c) \/ IS!Recheck(c) \/ IS!Locate(c)
                               \/ IS!Start(c)
  BY <1>3, AskStep, KillStep, RecheckStep, LocateStep, IdeStartStep
<1>4. CASE \E c \in Switches : IS!Wait(c) \/ IS!Fail(c) \/ IS!Inject(c) \/ IS!Index(c) \/ IS!Use(c)
  BY <1>4, WriteStep
<1>5. CASE \E p \in IS!ProcNames : IS!Exit(p)
  BY <1>5, ExitStep
<1>6. CASE \E p \in IdeUsers : IS!UserStarts(p)
  BY <1>6, UserStep
<1> QED
  BY <1>1, <1>2, <1>3, <1>4, <1>5, <1>6 DEF IS!Next

(* Theorem: the invariant of the switches holds in every reachable state.  *)
THEOREM SwitchInvariance == ASSUME IS!IdeSwitchAssumption PROVE IS!Spec => []SwitchInv
BY SwitchInit, SwitchStep, PTL DEF IS!Spec

(* Theorem: the switches keep to their types for any processes, accounts   *)
(* and calls.                                                              *)
THEOREM SwitchTypeCorrect == ASSUME IS!IdeSwitchAssumption PROVE IS!Spec => []IS!TypeOK
<1>1. SwitchInv => IS!TypeOK
  BY DEF SwitchInv, SwitchTypes
<1> QED
  BY <1>1, SwitchInvariance, PTL

(* Theorem: whatever runs and whoever starts what in between, closing the  *)
(* IDE never signals the server, its family or the tools, the token is     *)
(* written only while no IDE runs that ran when the switch looked, a close *)
(* fails for a reason, and a switch that was alone leaves the database the *)
(* IDE starts with and the index with one account (account/switch.rs,      *)
(* modules/process).                                                       *)
THEOREM SwitchAlwaysSound == ASSUME IS!IdeSwitchAssumption PROVE IS!Spec => []IS!SwitchSound
<1>1. SwitchInv => IS!SwitchSound
  <2> SUFFICES ASSUME SwitchInv
               PROVE  /\ IS!SparesOwn /\ IS!WrittenWhenClosed /\ IS!CloseFailsForReason
                      /\ IS!SwitchedAsOne
    BY DEF IS!SwitchSound
  <2>1. IS!SparesOwn
    BY DEF SwitchInv
  <2>2. IS!WrittenWhenClosed
    BY SoundParts DEF IS!WrittenWhenClosed, ClosedSeen, IS!At
  <2>3. IS!CloseFailsForReason
    BY SoundParts DEF IS!CloseFailsForReason, LeftForReason, Reason
  <2>4. IS!SwitchedAsOne
    BY SoundParts DEF IS!SwitchedAsOne, WrittenAsOne, Apart, IS!At
  <2> QED
    BY <2>1, <2>2, <2>3, <2>4
<1> QED
  BY <1>1, SwitchInvariance, PTL

-------------------------------------------------------------------------------
(* Theorem: the files, the migration and the switch together, each from    *)
(* the component it is of (StoreSound of module Components).               *)
THEOREM StoresAlwaysSound ==
  ASSUME AC!AccountStoreAssumption, MG!MigrationAssumption, IS!IdeSwitchAssumption
  PROVE  AC!Spec /\ MG!Spec /\ IS!Spec => []StoreSound
<1>1. AC!StoreSound /\ MG!MigrationSound /\ IS!SwitchSound => StoreSound
  BY DEF StoreSound
<1> QED
  BY <1>1, StoreAlwaysSound, MigrationAlwaysSound, SwitchAlwaysSound, PTL

-------------------------------------------------------------------------------
(* Rollout: the version in force is good, or the script that brought it    *)
(* is still to find out, or said that it failed; what .previous names was  *)
(* in force when a deployment began.                                       *)

CONSTANTS Versions, Bad, MaxDeploys, MaxReboots
VARIABLES roLink, roRunning, roPrevious, roFrontend, roPc, roVersion, roBuilt, roDeploys,
          roReported, roCareless, roState, roTold, roReboots
RO == INSTANCE Rollout

(* What runs is what the link names.                                       *)
RunsLinked == roRunning = roLink
(* Outside the wait for its answer, a version that no script called failed *)
(* is good.                                                                *)
InForceGood ==
    roReported = "complete" /\ roPc # "health" => roLink = RO!None \/ RO!Good(roLink)
(* A deployment with care begins after a success.                          *)
CarefulStart == roPc \in {"built", "synced", "saved"} => roCareless \/ roReported = "complete"
(* What a careful deployment keeps is good, or nothing was in force.       *)
KeptGood ==
    /\ roPrevious = RO!None => roLink = RO!None /\ roPc # "saved"
    /\ roCareless \/ roPrevious \in {RO!None, RO!Itself} \/ RO!Good(roPrevious)
(* The inductive invariant of the deployments.                             *)
RolloutInv ==
    RO!TypeOK /\ RunsLinked /\ InForceGood /\ CarefulStart /\ KeptGood /\ RO!ToldAsItIs

(* Lemma: the scripts preserve the invariant.                              *)
LEMMA ScriptStep ==
  ASSUME RO!RolloutAssumption, RolloutInv,
         \/ RO!Build \/ RO!SyncFrontend \/ RO!BackUp \/ RO!Switch \/ RO!Rollback
         \/ RO!AwaitHealth \/ RO!ConnectionLost
  PROVE  RolloutInv'
<1> USE DEF RolloutInv, RunsLinked, InForceGood, CarefulStart, KeptGood, RO!Good
<1>1. RO!ToldAsItIs'
  BY DEF RO!ToldAsItIs, RO!Build, RO!SyncFrontend, RO!BackUp, RO!Switch, RO!Rollback,
         RO!AwaitHealth, RO!ConnectionLost, RO!Watch
<1>2. CASE RO!Build
  <2>1. /\ UNCHANGED <<roLink, roRunning, roPrevious, roFrontend, roReported, roState, roTold,
                       roReboots>>
        /\ roPc = "idle" /\ roPc' = "built"
        /\ roCareless' = (roCareless \/ roReported = "failed")
    BY <1>2 DEF RO!Build, RO!Server, RO!Watch
  <2>2. roCareless' \in BOOLEAN
    BY <2>1
  <2>3. roVersion' \in Versions /\ roBuilt' \in Versions /\ roDeploys' \in 0..MaxDeploys
    BY <1>2 DEF RO!Build, RO!TypeOK, RO!RolloutAssumption
  <2>4. RO!TypeOK'
    BY <2>1, <2>2, <2>3 DEF RO!TypeOK
  <2>5. InForceGood' /\ CarefulStart' /\ KeptGood'
    BY <2>1 DEF RO!TypeOK
  <2> QED
    BY <1>1, <2>1, <2>4, <2>5
<1>3. CASE RO!SyncFrontend
  BY <1>1, <1>3 DEF RO!SyncFrontend, RO!Server, RO!Watch, RO!TypeOK
<1>4. CASE RO!BackUp
  <2>1. RO!Itself # RO!None
    BY DEF RO!Itself, RO!None, RO!RolloutAssumption
  <2>2. /\ UNCHANGED <<roLink, roRunning, roFrontend, roVersion, roBuilt, roDeploys, roReported,
                       roCareless, roState, roTold, roReboots>>
        /\ roPc = "synced" /\ roPc' = "saved"
        /\ roPrevious' = IF roLink = RO!None THEN RO!Itself ELSE roLink
    BY <1>4 DEF RO!BackUp, RO!Backup, RO!Watch
  <2>3. RO!TypeOK'
    BY <2>2 DEF RO!TypeOK
  <2>4. InForceGood' /\ CarefulStart' /\ KeptGood'
    BY <2>1, <2>2
  <2> QED
    BY <1>1, <2>2, <2>3, <2>4
<1>5. CASE RO!Switch
  BY <1>1, <1>5 DEF RO!Switch, RO!Watch, RO!TypeOK
<1>6. CASE RO!Rollback
  BY <1>1, <1>6 DEF RO!Rollback, RO!Watch, RO!TypeOK, RO!RolloutAssumption
<1>7. CASE RO!AwaitHealth
  BY <1>1, <1>7 DEF RO!AwaitHealth, RO!Ends, RO!Server, RO!Watch, RO!TypeOK
<1>8. CASE RO!ConnectionLost
  BY <1>1, <1>8 DEF RO!ConnectionLost, RO!Ends, RO!Server, RO!Watch, RO!TypeOK
<1> QED
  BY <1>2, <1>3, <1>4, <1>5, <1>6, <1>7, <1>8

(* Lemma: the health check and a reboot preserve the invariant.            *)
LEMMA WatchStep ==
  ASSUME RO!RolloutAssumption, RolloutInv, RO!HealthCheck \/ RO!Reboot
  PROVE  RolloutInv'
<1> USE DEF RolloutInv
<1>1. CASE RO!HealthCheck
  <2>1. PICK now \in RO!Answers :
           /\ roState' = now
           /\ roTold' = IF now = roState \/ RO!Told(roState, now) = "nothing"
                        THEN roTold ELSE RO!Told(roState, now)
    BY <1>1 DEF RO!HealthCheck, RO!StateAfter
  <2>2. now \in {"down", "ok", "error"}
    BY DEF RO!Answers
  <2>3. UNCHANGED <<roLink, roRunning, roPrevious, roFrontend, roPc, roVersion, roBuilt,
                    roDeploys, roReported, roCareless, roReboots>>
    BY <1>1 DEF RO!HealthCheck, RO!Server
  <2>4. roTold' \in {"nothing", "DOWN", "DEGRADED", "RECOVERED"} /\ RO!ToldAsItIs'
    BY <2>1, <2>2, <2>3 DEF RO!Told, RO!ToldAsItIs, RO!TypeOK
  <2> QED
    BY <2>1, <2>2, <2>3, <2>4 DEF RO!TypeOK, RunsLinked, InForceGood, CarefulStart, KeptGood,
                                 RO!Good
<1>2. CASE RO!Reboot
  <2>1. RO!TypeOK' /\ RO!ToldAsItIs'
    BY <1>2 DEF RO!Reboot, RO!TypeOK, RO!ToldAsItIs, RO!RolloutAssumption
  <2> QED
    BY <1>2, <2>1 DEF RO!Reboot, RunsLinked, InForceGood, CarefulStart, KeptGood, RO!Good
<1> QED
  BY <1>1, <1>2

(* Theorem: the invariant of the deployments holds in every reachable      *)
(* state.                                                                  *)
THEOREM RolloutInvariance == ASSUME RO!RolloutAssumption PROVE RO!Spec => []RolloutInv
<1>1. ASSUME RO!Init PROVE RolloutInv
  <2>1. roDeploys \in 0..MaxDeploys /\ roReboots \in 0..MaxReboots
    BY <1>1 DEF RO!Init, RO!RolloutAssumption
  <2>2. RO!TypeOK
    BY <1>1, <2>1 DEF RO!Init, RO!TypeOK, RO!None
  <2>3. RunsLinked /\ InForceGood /\ CarefulStart /\ KeptGood /\ RO!ToldAsItIs
    BY <1>1 DEF RO!Init, RunsLinked, InForceGood, CarefulStart, KeptGood, RO!ToldAsItIs
  <2> QED
    BY <2>2, <2>3 DEF RolloutInv
<1>2. RolloutInv /\ [RO!Next]_(RO!roVars) => RolloutInv'
  <2> SUFFICES ASSUME RolloutInv, [RO!Next]_(RO!roVars) PROVE RolloutInv'
    OBVIOUS
  <2>1. CASE UNCHANGED RO!roVars
    BY <2>1 DEF RO!roVars, RolloutInv, RO!TypeOK, RunsLinked, InForceGood, CarefulStart,
                KeptGood, RO!ToldAsItIs, RO!Good
  <2> QED
    BY <2>1, ScriptStep, WatchStep DEF RO!Next
<1> QED
  BY <1>1, <1>2, PTL DEF RO!Spec

(* Theorem: the deployments keep to their types.                           *)
THEOREM RolloutTypeCorrect == ASSUME RO!RolloutAssumption PROVE RO!Spec => []RO!TypeOK
<1>1. RolloutInv => RO!TypeOK
  BY DEF RolloutInv
<1> QED
  BY <1>1, RolloutInvariance, PTL

(* Theorem: for any versions, deployments, broken connections and reboots, *)
(* an operator who takes back what failed always has a good version to go  *)
(* back to, and without a reboot the last message of the health check is   *)
(* what it found (deploy.sh, vps-health-check).                            *)
THEOREM WayBackAlways ==
  ASSUME RO!RolloutAssumption
  PROVE  RO!Spec => [](RO!WayBack /\ RO!ToldAsItIs)
<1>1. RolloutInv => RO!WayBack /\ RO!ToldAsItIs
  BY DEF RolloutInv, KeptGood, InForceGood, CarefulStart, RO!WayBack
<1> QED
  BY <1>1, RolloutInvariance, PTL

-------------------------------------------------------------------------------
(* WarpIsolation: accounts are only added at the end of accounts.json, so  *)
(* that while none is removed what the scripts read of it, the mapping and *)
(* the ports of the units agree with it.                                   *)

CONSTANTS Ids, Ips, MaxRetries, MaxEdits, MaxReconnects
VARIABLES wiAccounts, wiMapping, wiUnit, wiRunning, wiDevice, wiPc, wiJob, wiAt, wiSeen,
          wiRetries, wiRemoved, wiEdits, wiReconnects
WI == INSTANCE WarpIsolation

(* How many accounts there may be.                                         *)
IdCount == WI!Cardinality(Ids)
(* A list names nobody twice.                                              *)
NamesOnce(list) == \A i, j \in DOMAIN list : list[i] = list[j] => i = j
(* A list is how the accounts begin.                                       *)
BeginsAccounts(list) ==
    Len(list) <= Len(wiAccounts) /\ \A i \in DOMAIN list : list[i] = wiAccounts[i]
(* A port is the place of an account, or none.                             *)
PortOfOwn(port, a) == port # 0 => port \in DOMAIN wiAccounts /\ wiAccounts[port] = a

(* Everybody is listed once, in accounts.json and in what was read of it.  *)
ListsOnce == NamesOnce(wiAccounts) /\ NamesOnce(wiJob) /\ NamesOnce(wiMapping)
(* While nobody was removed the lists and the ports agree.                 *)
InPlace ==
    ~wiRemoved => /\ BeginsAccounts(wiJob) /\ BeginsAccounts(wiMapping)
                  /\ \A a \in Ids : PortOfOwn(wiUnit[a], a) /\ PortOfOwn(wiRunning[a], a)
(* A unit, and what runs of it, has a device.                              *)
HasDevice == \A a \in Ids : wiUnit[a] # 0 \/ wiRunning[a] # 0 => wiDevice[a] # WI!NoDevice
(* Where the scripts are in their lists.                                   *)
PlacesFit ==
    /\ wiPc \notin {"enforce", "look"} => wiRetries = 0 /\ wiSeen = <<>>
    /\ wiPc \in {"enforce", "look"} => Len(wiSeen) = Len(wiJob)
    /\ wiPc = "look" => WI!Colliding(wiSeen) # {}
    /\ wiAt <= Len(wiJob) + 1 /\ (wiPc # "generate" => wiAt = 1)
    /\ wiRetries <= MaxRetries * Len(wiJob)
(* The types of TypeOK, before the bounds that follow from the lists.      *)
TunnelTypes ==
    /\ wiAccounts \in Seq(Ids) /\ wiMapping \in Seq(Ids) /\ wiJob \in Seq(Ids)
    /\ wiUnit \in [Ids -> 0..IdCount] /\ wiRunning \in [Ids -> 0..IdCount]
    /\ wiDevice \in [Ids -> WI!Ways \union {WI!NoDevice}]
    /\ wiPc \in {"idle", "generate", "start", "enforce", "look"}
    /\ wiAt \in Nat \ {0} /\ wiSeen \in Seq(Ips \union {WI!HostIp}) /\ wiRetries \in Nat
(* The inductive invariant of the tunnels.                                 *)
TunnelInv == TunnelTypes /\ ListsOnce /\ InPlace /\ HasDevice /\ PlacesFit

(* Lemma: a set of numbers has a least one.                                *)
LEMMA LeastExists ==
  ASSUME NEW T, T \subseteq Nat, T # {}
  PROVE  \E m \in T : \A k \in T : m <= k
<1>1. PICK m \in T : \A k \in T : ~(<<k, m>> \in OpToRel(<, Nat))
  BY NatLessThanWellFounded, WFMin
<1>2. \A k \in T : ~(k < m)
  BY <1>1, Zenon DEF OpToRel
<1> QED
  BY ONLY <1>2, T \subseteq Nat, m \in T

(* Lemma: a list without repetitions is no longer than its elements.       *)
LEMMA ShortLists ==
  ASSUME WI!WarpIsolationAssumption, NEW list \in Seq(Ids), NamesOnce(list)
  PROVE  Len(list) <= IdCount /\ IdCount \in Nat
<1>1. IsFiniteSet(Ids) /\ IdCount = Cardinality(Ids)
  BY DEF WI!WarpIsolationAssumption, IdCount, Cardinality, WI!Cardinality, IsFiniteSet,
         WI!IsFiniteSet
<1>2. Len(list) \in Nat /\ list \in [1..Len(list) -> Ids] /\ DOMAIN list = 1..Len(list)
  BY LenProperties
<1>3. list \in Injection(1..Len(list), Ids)
  BY <1>2 DEF NamesOnce, Injection, IsInjective
<1>4. IsFiniteSet(1..Len(list)) /\ Cardinality(1..Len(list)) = Len(list)
  BY <1>2, FS_Interval
<1>5. Cardinality(1..Len(list)) <= Cardinality(Ids)
  BY <1>1, <1>3, FS_Injection
<1> QED
  BY <1>1, <1>4, <1>5, FS_CardinalityType

(* Lemma: the first of some places is one of them.                         *)
LEMMA FirstIsOne ==
  ASSUME NEW places, places \subseteq Nat, places # {}
  PROVE  WI!First(places) \in places /\ \A j \in places : WI!First(places) <= j
BY LeastExists DEF WI!First

(* Lemma: the first account that has an earlier one's address is listed.   *)
LEMMA FirstColliding ==
  ASSUME TunnelTypes, WI!Colliding(wiSeen) # {}
  PROVE  LET i == WI!First(WI!Colliding(wiSeen))
         IN  /\ i \in 1..Len(wiSeen) /\ i \in WI!Colliding(wiSeen)
             /\ \A k \in WI!Colliding(wiSeen) : i <= k
<1>1. DOMAIN wiSeen = 1..Len(wiSeen) /\ Len(wiSeen) \in Nat
  BY LenProperties DEF TunnelTypes
<1>2. WI!Colliding(wiSeen) \subseteq 1..Len(wiSeen) /\ WI!Colliding(wiSeen) \subseteq Nat
  BY <1>1 DEF WI!Colliding
<1> QED
  BY <1>2, FirstIsOne

(* Lemma: what is fetched through a port comes out of a device.            *)
LEMMA FetchedWay ==
  ASSUME TunnelTypes, HasDevice, NEW port \in Nat \ {0}, WI!Fetch(port) # WI!Failed
  PROVE  /\ WI!Fetch(port) \in Ips \union {WI!HostIp}
         /\ \E a \in Ids : wiRunning[a] = port /\ WI!Fetch(port) = wiDevice[a]
<1>1. PICK a \in Ids : wiRunning[a] = port /\ WI!Fetch(port) = wiDevice[a]
  BY DEF WI!Fetch, WI!Behind
<1>2. wiDevice[a] \in WI!Ways
  BY <1>1 DEF HasDevice, TunnelTypes
<1> QED
  BY <1>1, <1>2 DEF WI!Ways

(* Lemma: a list with one place taken out names nobody twice.              *)
LEMMA RemovedOnce ==
  ASSUME NEW list \in Seq(Ids), NamesOnce(list), NEW i \in DOMAIN list
  PROVE  WI!RemoveAt(list, i) \in Seq(Ids) /\ NamesOnce(WI!RemoveAt(list, i))
<1> DEFINE n == Len(list)
           a == SubSeq(list, 1, i - 1)
           b == SubSeq(list, i + 1, n)
<1>1. n \in Nat /\ i \in 1..n /\ DOMAIN list = 1..n /\ \A k \in 1..n : list[k] \in Ids
  BY LenProperties
<1>2. /\ a \in Seq(Ids) /\ Len(a) = i - 1
      /\ \A k \in 1..(i - 1) : a[k] = list[k]
  BY <1>1, SubSeqProperties
<1>3. /\ b \in Seq(Ids) /\ Len(b) = n - i
      /\ \A k \in 1..(n - i) : b[k] = list[i + k]
  BY <1>1, SubSeqProperties
<1> HIDE DEF a, b
<1>4. /\ a \o b \in Seq(Ids) /\ Len(a \o b) = n - 1 /\ DOMAIN (a \o b) = 1..(n - 1)
      /\ \A k \in 1..(n - 1) : (a \o b)[k] = IF k <= i - 1 THEN a[k] ELSE b[k - (i - 1)]
  <2>1. /\ a \o b \in Seq(Ids) /\ Len(a \o b) = Len(a) + Len(b)
        /\ \A k \in 1..(Len(a) + Len(b)) :
              (a \o b)[k] = IF k <= Len(a) THEN a[k] ELSE b[k - Len(a)]
    BY <1>2, <1>3, ConcatProperties
  <2>2. DOMAIN (a \o b) = 1..Len(a \o b)
    BY <2>1, LenProperties
  <2>3. Len(a) = i - 1 /\ Len(a) + Len(b) = n - 1
    BY <1>1, <1>2, <1>3
  <2> QED
    BY <2>1, <2>2, <2>3
<1> DEFINE c == a \o b
           place(k) == IF k < i THEN k ELSE k + 1
<1>5. WI!RemoveAt(list, i) = c
  BY DEF WI!RemoveAt, a, b
<1>6. \A k \in 1..(n - 1) : c[k] = IF k <= i - 1 THEN a[k] ELSE b[k - (i - 1)]
  BY <1>4
<1> HIDE DEF c
<1>7. ASSUME NEW k \in 1..(n - 1)
      PROVE  place(k) \in 1..n /\ c[k] = list[place(k)]
  <2>1. CASE k < i
    <3>1. k <= i - 1 /\ k \in 1..(i - 1) /\ k \in 1..n
      BY <1>1, <2>1
    <3> QED
      BY <1>2, <1>6, <2>1, <3>1
  <2>2. CASE ~(k < i)
    <3>1. /\ k - (i - 1) \in 1..(n - i) /\ i + (k - (i - 1)) = k + 1
          /\ ~(k <= i - 1) /\ k + 1 \in 1..n
      BY <1>1, <2>2
    <3> QED
      BY <1>3, <1>6, <2>2, <3>1
  <2> QED
    BY <2>1, <2>2
<1>8. ASSUME NEW k \in 1..(n - 1), NEW l \in 1..(n - 1), c[k] = c[l]
      PROVE  k = l
  <2>1. place(k) = place(l)
    <3> HIDE DEF place
    <3> QED
      BY <1>1, <1>7, <1>8 DEF NamesOnce
  <2> QED
    BY <1>1, <2>1
<1> QED
  BY <1>4, <1>5, <1>8 DEF NamesOnce, c

(* Lemma: changes of accounts.json preserve the invariant.                 *)
LEMMA EditStep ==
  ASSUME TunnelInv, WI!AddAccount \/ WI!RemoveAccount
  PROVE  TunnelInv'
<1> USE DEF TunnelInv
<1>1. UNCHANGED <<wiMapping, wiUnit, wiRunning, wiDevice, wiPc, wiJob, wiAt, wiSeen, wiRetries>>
  BY DEF WI!AddAccount, WI!RemoveAccount, WI!Edit, WI!Files, WI!Search
<1>2. HasDevice' /\ PlacesFit'
  BY <1>1 DEF HasDevice, PlacesFit, WI!Colliding
<1>3. wiAccounts' \in Seq(Ids) /\ NamesOnce(wiAccounts') => TunnelTypes' /\ ListsOnce'
  BY <1>1 DEF TunnelTypes, ListsOnce
<1>4. CASE WI!AddAccount
  <2>1. PICK a \in Ids : /\ a \notin WI!Range(wiAccounts)
                         /\ wiAccounts' = Append(wiAccounts, a) /\ wiRemoved' = wiRemoved
    BY <1>4 DEF WI!AddAccount, WI!Edit
  <2> DEFINE n == Len(wiAccounts)
  <2>2. n \in Nat /\ DOMAIN wiAccounts = 1..n /\ wiAccounts \in Seq(Ids)
    BY LenProperties DEF TunnelTypes
  <2>3. /\ wiAccounts' \in Seq(Ids) /\ Len(wiAccounts') = n + 1
        /\ \A i \in 1..n : wiAccounts'[i] = wiAccounts[i]
        /\ wiAccounts'[n + 1] = a
    BY <2>1, <2>2, AppendProperties
  <2>4. DOMAIN wiAccounts' = 1..(n + 1)
    BY <2>3, LenProperties
  <2>5. \A i \in 1..n : wiAccounts[i] # a
    BY <2>1, <2>2 DEF WI!Range
  <2> HIDE DEF n
  <2>6. NamesOnce(wiAccounts')
    BY <2>2, <2>3, <2>4, <2>5 DEF ListsOnce, NamesOnce
  <2>7. ASSUME NEW list \in Seq(Ids), BeginsAccounts(list)
        PROVE  Len(list) <= Len(wiAccounts') /\ \A i \in DOMAIN list : list[i] = wiAccounts'[i]
    <3>1. Len(list) \in Nat /\ DOMAIN list = 1..Len(list) /\ Len(list) <= n
      BY <2>7, LenProperties DEF BeginsAccounts, n
    <3> QED
      BY <2>2, <2>3, <2>7, <3>1 DEF BeginsAccounts
  <2>8. ASSUME NEW port, NEW b, PortOfOwn(port, b)
        PROVE  port # 0 => port \in DOMAIN wiAccounts' /\ wiAccounts'[port] = b
    BY <2>2, <2>3, <2>4, <2>8 DEF PortOfOwn
  <2>9. InPlace'
    <3> SUFFICES ASSUME ~wiRemoved
                 PROVE  /\ BeginsAccounts(wiJob)' /\ BeginsAccounts(wiMapping)'
                        /\ \A b \in Ids : PortOfOwn(wiUnit[b], b)' /\ PortOfOwn(wiRunning[b], b)'
      BY <2>1 DEF InPlace
    <3>1. BeginsAccounts(wiJob)' /\ BeginsAccounts(wiMapping)'
      BY <1>1, <2>7 DEF InPlace, TunnelTypes, BeginsAccounts
    <3>2. ASSUME NEW b \in Ids PROVE PortOfOwn(wiUnit[b], b)' /\ PortOfOwn(wiRunning[b], b)'
      BY <1>1, <2>8 DEF InPlace, PortOfOwn
    <3> QED
      BY <3>1, <3>2
  <2> QED
    BY <1>2, <1>3, <2>3, <2>6, <2>9
<1>5. CASE WI!RemoveAccount
  <2>1. PICK i \in DOMAIN wiAccounts : wiAccounts' = WI!RemoveAt(wiAccounts, i) /\ wiRemoved'
    BY <1>5 DEF WI!RemoveAccount, WI!Edit
  <2>2. wiAccounts' \in Seq(Ids) /\ NamesOnce(wiAccounts')
    BY <2>1, RemovedOnce DEF TunnelTypes, ListsOnce
  <2>3. InPlace'
    BY <2>1 DEF InPlace
  <2> QED
    BY <1>2, <1>3, <2>2, <2>3
<1> QED
  BY <1>4, <1>5

(* Lemma: the limit on retries is a number, and grows with the list.       *)
LEMMA RetryLimit ==
  ASSUME WI!WarpIsolationAssumption, NEW m \in Nat, NEW n \in Nat, m <= n
  PROVE  MaxRetries * m \in Nat /\ MaxRetries * m <= MaxRetries * n
BY DEF WI!WarpIsolationAssumption

(* Lemma: a tunnel's way out is a device.                                  *)
LEMMA WaysOut ==
  ASSUME WI!WarpIsolationAssumption
  PROVE  WI!NoDevice \notin WI!Ways
BY DEF WI!WarpIsolationAssumption, WI!NoDevice, WI!Ways, WI!HostIp, WI!Failed

(* Lemma: a tunnel that comes back and a host that reboots preserve the    *)
(* invariant.                                                              *)
LEMMA TunnelReturns ==
  ASSUME WI!WarpIsolationAssumption, TunnelInv, WI!Reconnect \/ WI!Reboot
  PROVE  TunnelInv'
<1> USE DEF TunnelInv
<1>1. UNCHANGED <<wiAccounts, wiRemoved, wiMapping, wiJob, wiUnit, wiAt, wiSeen, wiRetries>>
  BY DEF WI!Reconnect, WI!Reboot, WI!Files, WI!Search
<1>2. ListsOnce'
  BY <1>1 DEF ListsOnce, NamesOnce
<1>3. \A port, a : PortOfOwn(port, a)' <=> PortOfOwn(port, a)
  BY <1>1 DEF PortOfOwn
<1>4. \A list : BeginsAccounts(list)' <=> BeginsAccounts(list)
  BY <1>1 DEF BeginsAccounts
<1>5. CASE WI!Reconnect
  <2>1. PICK a \in Ids, way \in WI!Ways : wiDevice' = [wiDevice EXCEPT ![a] = way]
    BY <1>5 DEF WI!Reconnect
  <2>2. UNCHANGED <<wiRunning, wiPc>>
    BY <1>5 DEF WI!Reconnect
  <2>3. TunnelTypes'
    BY <1>1, <2>1, <2>2 DEF TunnelTypes
  <2>4. HasDevice'
    <3>1. \A b \in Ids : wiDevice'[b] = IF b = a THEN way ELSE wiDevice[b]
      BY <2>1 DEF TunnelTypes
    <3> QED
      BY <1>1, <2>2, <3>1, WaysOut DEF HasDevice
  <2>5. InPlace'
    BY <1>1, <2>2 DEF InPlace, PortOfOwn, BeginsAccounts
  <2>6. PlacesFit'
    BY <1>1, <2>2 DEF PlacesFit, WI!Colliding
  <2> QED
    BY <1>2, <2>3, <2>4, <2>5, <2>6
<1>6. CASE WI!Reboot
  <2>1. /\ wiPc = "idle" /\ wiPc' = "start" /\ wiRunning' = [a \in Ids |-> 0]
        /\ UNCHANGED wiDevice
    BY <1>6 DEF WI!Reboot
  <2>2. IdCount \in Nat
    BY ShortLists DEF TunnelTypes, ListsOnce
  <2>3. TunnelTypes'
    BY <1>1, <2>1, <2>2 DEF TunnelTypes
  <2>4. HasDevice' /\ InPlace'
    BY <1>1, <2>1 DEF HasDevice, InPlace, PortOfOwn, BeginsAccounts
  <2>5. PlacesFit'
    BY <1>1, <2>1 DEF PlacesFit
  <2> QED
    BY <1>2, <2>3, <2>4, <2>5
<1> QED
  BY <1>5, <1>6

(* Lemma: a script that ends leaves the invariant.                         *)
LEMMA ScriptDone ==
  ASSUME WI!WarpIsolationAssumption, TunnelInv, WI!Done,
         UNCHANGED <<wiAccounts, wiRemoved, wiMapping, wiUnit, wiRunning, wiDevice>>
  PROVE  TunnelInv'
<1> USE DEF TunnelInv, WI!Done
<1>1. TunnelTypes'
  BY EmptySeq DEF TunnelTypes
<1>2. ListsOnce'
  BY DEF ListsOnce, NamesOnce
<1>3. InPlace'
  <2>1. BeginsAccounts(wiJob)'
    BY LenProperties DEF BeginsAccounts, TunnelTypes
  <2> QED
    BY <2>1 DEF InPlace, PortOfOwn, BeginsAccounts
<1>4. HasDevice'
  BY DEF HasDevice
<1>5. PlacesFit'
  <2>1. Len(wiJob') = 0
    OBVIOUS
  <2> QED
    BY <2>1, RetryLimit DEF PlacesFit
<1> QED
  BY <1>1, <1>2, <1>3, <1>4, <1>5

(* Lemma: the generator preserves the invariant.                           *)
LEMMA GeneratorStep ==
  ASSUME WI!WarpIsolationAssumption, TunnelInv,
         WI!Generate \/ WI!GenerateNext \/ WI!RegistrationRefused \/ WI!GenerateEnds
  PROVE  TunnelInv'
<1> USE DEF TunnelInv
<1>1. CASE WI!Generate
  <2>1. /\ wiPc = "idle" /\ wiPc' = "generate" /\ wiJob' = wiAccounts /\ wiAt' = 1
        /\ UNCHANGED <<wiAccounts, wiRemoved, wiMapping, wiUnit, wiRunning, wiDevice, wiSeen, wiRetries>>
    BY <1>1 DEF WI!Generate, WI!World, WI!Files, WI!Search
  <2>2. Len(wiAccounts) \in Nat
    BY LenProperties DEF TunnelTypes
  <2>3. TunnelTypes' /\ ListsOnce' /\ HasDevice'
    BY <2>1 DEF TunnelTypes, ListsOnce, HasDevice, NamesOnce
  <2>4. InPlace'
    BY <2>1, <2>2 DEF InPlace, PortOfOwn, BeginsAccounts
  <2>5. PlacesFit'
    BY <2>1, <2>2, RetryLimit DEF PlacesFit
  <2> QED
    BY <2>3, <2>4, <2>5
<1>2. CASE WI!GenerateNext
  <2> DEFINE a == wiJob[wiAt]
  <2>1. /\ wiPc = "generate" /\ wiAt <= Len(wiJob) /\ wiAt' = wiAt + 1
        /\ wiUnit' = [wiUnit EXCEPT ![a] = wiAt]
        /\ UNCHANGED <<wiAccounts, wiRemoved, wiMapping, wiRunning, wiPc, wiJob, wiSeen, wiRetries>>
    BY <1>2 DEF WI!GenerateNext, WI!World, WI!Search, WI!UnitFile, WI!PortOf
  <2>2. /\ Len(wiJob) \in Nat /\ wiAt \in 1..Len(wiJob) /\ DOMAIN wiJob = 1..Len(wiJob)
        /\ a \in Ids
    BY <2>1, LenProperties DEF TunnelTypes
  <2>3. PICK way \in WI!Ways : wiDevice' = [wiDevice EXCEPT ![a] = way]
    <3>1. PICK way \in IF wiDevice[a] = WI!NoDevice THEN WI!Ways ELSE {wiDevice[a]} :
              wiDevice' = [wiDevice EXCEPT ![a] = way]
      BY <1>2 DEF WI!GenerateNext, WI!Keys
    <3>2. way \in WI!Ways
      BY <2>2, <3>1 DEF TunnelTypes
    <3> QED
      BY <3>1, <3>2
  <2>4. Len(wiJob) <= IdCount /\ IdCount \in Nat
    BY ShortLists DEF TunnelTypes, ListsOnce
  <2>5. TunnelTypes'
    <3>1. wiUnit' \in [Ids -> 0..IdCount]
      BY <2>1, <2>2, <2>4 DEF TunnelTypes
    <3>2. wiDevice' \in [Ids -> WI!Ways \union {WI!NoDevice}]
      BY <2>2, <2>3 DEF TunnelTypes
    <3> QED
      BY <2>1, <3>1, <3>2 DEF TunnelTypes
  <2>6. ListsOnce'
    BY <2>1 DEF ListsOnce, NamesOnce
  <2>7. HasDevice'
    <3>1. \A b \in Ids : wiDevice'[b] = IF b = a THEN way ELSE wiDevice[b]
      BY <2>3 DEF TunnelTypes
    <3>2. \A b \in Ids : b # a => wiUnit'[b] = wiUnit[b]
      BY <2>1 DEF TunnelTypes
    <3> QED
      BY <2>1, <3>1, <3>2, WaysOut DEF HasDevice
  <2>8. InPlace'
    <3> SUFFICES ASSUME ~wiRemoved
                 PROVE  /\ BeginsAccounts(wiJob)' /\ BeginsAccounts(wiMapping)'
                        /\ \A b \in Ids : PortOfOwn(wiUnit[b], b)' /\ PortOfOwn(wiRunning[b], b)'
      BY <2>1 DEF InPlace
    <3>1. BeginsAccounts(wiJob)' /\ BeginsAccounts(wiMapping)'
      BY <2>1 DEF InPlace, BeginsAccounts
    <3>2. Len(wiAccounts) \in Nat /\ DOMAIN wiAccounts = 1..Len(wiAccounts)
      BY LenProperties DEF TunnelTypes
    <3>3. wiAt \in DOMAIN wiAccounts /\ wiAccounts[wiAt] = a
      BY <2>2, <3>2 DEF InPlace, BeginsAccounts
    <3>4. ASSUME NEW b \in Ids PROVE PortOfOwn(wiUnit[b], b)' /\ PortOfOwn(wiRunning[b], b)'
      <4>1. wiUnit'[b] = IF b = a THEN wiAt ELSE wiUnit[b]
        BY <2>1 DEF TunnelTypes
      <4> QED
        BY <2>1, <3>3, <4>1 DEF InPlace, PortOfOwn
    <3> QED
      BY <3>1, <3>4
  <2>9. PlacesFit'
    BY <2>1, <2>2 DEF PlacesFit
  <2> QED
    BY <2>5, <2>6, <2>7, <2>8, <2>9
<1>3. CASE WI!RegistrationRefused
  BY <1>3, ScriptDone DEF WI!RegistrationRefused, WI!World, WI!Files
<1>4. CASE WI!GenerateEnds
  <2>1. /\ wiMapping' = wiJob /\ wiPc' = "start" /\ wiJob' = <<>> /\ wiAt' = 1
        /\ wiPc = "generate"
        /\ UNCHANGED <<wiAccounts, wiRemoved, wiUnit, wiRunning, wiDevice, wiSeen, wiRetries>>
    BY <1>4 DEF WI!GenerateEnds, WI!World, WI!Search
  <2>2. TunnelTypes' /\ ListsOnce' /\ HasDevice'
    BY <2>1, EmptySeq DEF TunnelTypes, ListsOnce, HasDevice, NamesOnce
  <2>3. InPlace'
    <3>1. BeginsAccounts(wiJob)'
      BY <2>1, LenProperties DEF BeginsAccounts, TunnelTypes
    <3> QED
      BY <2>1, <3>1 DEF InPlace, PortOfOwn, BeginsAccounts
  <2>4. PlacesFit'
    <3>1. Len(wiJob') = 0
      BY <2>1
    <3> QED
      BY <2>1, <3>1, RetryLimit DEF PlacesFit
  <2> QED
    BY <2>2, <2>3, <2>4
<1> QED
  BY <1>1, <1>2, <1>3, <1>4

(* Lemma: starting the units preserves the invariant.                      *)
LEMMA StarterStep ==
  ASSUME WI!WarpIsolationAssumption, TunnelInv, WI!StartUnit \/ WI!StartEnds
  PROVE  TunnelInv'
<1> USE DEF TunnelInv
<1>1. CASE WI!StartUnit
  <2>1. PICK a \in Ids : /\ wiUnit[a] # 0
                         /\ wiRunning' = [wiRunning EXCEPT ![a] = wiUnit[a]]
    BY <1>1 DEF WI!StartUnit, WI!Startable
  <2>2. UNCHANGED <<wiAccounts, wiRemoved, wiMapping, wiUnit, wiDevice, wiPc, wiJob, wiAt,
                    wiSeen, wiRetries>>
    BY <1>1 DEF WI!StartUnit, WI!World, WI!Files, WI!Search
  <2>3. \A b \in Ids : wiRunning'[b] = IF b = a THEN wiUnit[a] ELSE wiRunning[b]
    BY <2>1 DEF TunnelTypes
  <2>4. TunnelTypes' /\ ListsOnce' /\ HasDevice'
    BY <2>1, <2>2, <2>3 DEF TunnelTypes, ListsOnce, HasDevice, NamesOnce
  <2>5. InPlace'
    BY <2>2, <2>3 DEF InPlace, PortOfOwn, BeginsAccounts
  <2>6. PlacesFit'
    BY <2>2 DEF PlacesFit, WI!Colliding
  <2> QED
    BY <2>4, <2>5, <2>6
<1>2. CASE WI!StartEnds
  BY <1>2, ScriptDone DEF WI!StartEnds, WI!World, WI!Files
<1> QED
  BY <1>1, <1>2

(* Lemma: the first look at every port preserves the invariant.            *)
LEMMA FirstLook ==
  ASSUME WI!WarpIsolationAssumption, TunnelInv, WI!EnforceBegins
  PROVE  TunnelInv'
<1> USE DEF TunnelInv
<1>1. /\ wiPc = "idle" /\ wiPc' = "enforce" /\ wiJob' = wiMapping
      /\ \A i \in DOMAIN wiMapping : WI!Fetch(i) # WI!Failed
      /\ wiSeen' = [i \in DOMAIN wiMapping |-> WI!Fetch(i)]
      /\ UNCHANGED <<wiAccounts, wiRemoved, wiMapping, wiUnit, wiRunning, wiDevice, wiAt,
                     wiRetries>>
  BY DEF WI!EnforceBegins, WI!World, WI!Files
<1>2. Len(wiMapping) \in Nat /\ DOMAIN wiMapping = 1..Len(wiMapping)
  BY LenProperties DEF TunnelTypes
<1>3. wiSeen' \in [1..Len(wiMapping) -> Ips \union {WI!HostIp}]
  BY <1>1, <1>2, FetchedWay
<1>4. wiSeen' \in Seq(Ips \union {WI!HostIp}) /\ Len(wiSeen') = Len(wiMapping)
  BY <1>2, <1>3, IsASeq
<1>5. TunnelTypes' /\ ListsOnce' /\ HasDevice'
  BY <1>1, <1>4 DEF TunnelTypes, ListsOnce, HasDevice, NamesOnce
<1>6. InPlace'
  BY <1>1 DEF InPlace, PortOfOwn, BeginsAccounts
<1>7. PlacesFit'
  BY <1>1, <1>2, <1>4, RetryLimit DEF PlacesFit
<1> QED
  BY <1>5, <1>6, <1>7

(* Lemma: a device registered anew, or in vain, and another look preserve  *)
(* the invariant.                                                          *)
LEMMA EnforcerStep ==
  ASSUME WI!WarpIsolationAssumption, TunnelInv,
         WI!Reregister \/ WI!ReregisterFails \/ WI!LookAgain \/ WI!EnforceEnds
  PROVE  TunnelInv'
<1> USE DEF TunnelInv
<1> DEFINE i == WI!First(WI!Colliding(wiSeen))
<1>1. Len(wiJob) \in Nat /\ DOMAIN wiJob = 1..Len(wiJob) /\ MaxRetries * Len(wiJob) \in Nat
  BY LenProperties, RetryLimit DEF TunnelTypes
<1>2. ASSUME wiPc \in {"enforce", "look"}, WI!Colliding(wiSeen) # {}
      PROVE  i \in 1..Len(wiSeen) /\ i \in DOMAIN wiJob /\ wiJob[i] \in Ids
  BY <1>1, <1>2, FirstColliding DEF PlacesFit, TunnelTypes
<1>3. CASE WI!Reregister
  <2> DEFINE a == wiJob[i]
  <2>1. /\ wiPc = "enforce" /\ wiPc' = "look" /\ WI!Colliding(wiSeen) # {}
        /\ wiRetries < MaxRetries * Len(wiJob) /\ wiRetries' = wiRetries + 1
        /\ wiUnit[a] # 0
        /\ UNCHANGED <<wiAccounts, wiRemoved, wiMapping, wiUnit, wiJob, wiAt, wiSeen>>
    BY <1>3 DEF WI!Reregister, WI!World, WI!Files, WI!MayRetry
  <2>2. PICK way \in WI!Ways, port \in {0, wiUnit[a]} :
           /\ wiDevice' = [wiDevice EXCEPT ![a] = way]
           /\ wiRunning' = [wiRunning EXCEPT ![a] = port]
    BY <1>3 DEF WI!Reregister
  <2>3. a \in Ids
    BY <1>2, <2>1
  <2> HIDE DEF a
  <2>4. \A b \in Ids : /\ wiRunning'[b] = IF b = a THEN port ELSE wiRunning[b]
                       /\ wiDevice'[b] = IF b = a THEN way ELSE wiDevice[b]
    BY <2>2, <2>3 DEF TunnelTypes
  <2>5. TunnelTypes'
    <3>1. port \in 0..IdCount
      BY <2>2, <2>3, ShortLists DEF TunnelTypes, ListsOnce
    <3> QED
      BY <2>1, <2>2, <2>3, <3>1 DEF TunnelTypes
  <2>6. ListsOnce' /\ HasDevice'
    BY <2>1, <2>4, WaysOut DEF ListsOnce, NamesOnce, HasDevice
  <2>7. InPlace'
    BY <2>1, <2>2, <2>4 DEF InPlace, PortOfOwn, BeginsAccounts
  <2>8. PlacesFit'
    <3>1. wiRetries' \in Nat /\ wiRetries' <= MaxRetries * Len(wiJob)
      BY <1>1, <2>1 DEF TunnelTypes
    <3>2. wiSeen' = wiSeen /\ WI!Colliding(wiSeen)' # {}
      BY <2>1 DEF WI!Colliding
    <3> QED
      BY <2>1, <3>1, <3>2, Zenon DEF PlacesFit
  <2> QED
    BY <2>5, <2>6, <2>7, <2>8
<1>4. CASE WI!ReregisterFails
  <2>1. /\ wiPc = "enforce" /\ wiRetries < MaxRetries * Len(wiJob)
        /\ wiRetries' = wiRetries + 1
        /\ UNCHANGED <<wiAccounts, wiRemoved, wiMapping, wiUnit, wiRunning, wiDevice, wiPc,
                       wiJob, wiAt, wiSeen>>
    BY <1>4 DEF WI!ReregisterFails, WI!World, WI!Files, WI!MayRetry
  <2>2. TunnelTypes' /\ ListsOnce' /\ HasDevice'
    BY <2>1 DEF TunnelTypes, ListsOnce, NamesOnce, HasDevice
  <2>3. InPlace'
    BY <2>1 DEF InPlace, PortOfOwn, BeginsAccounts
  <2>4. PlacesFit'
    BY <1>1, <2>1 DEF PlacesFit, WI!Colliding, TunnelTypes
  <2> QED
    BY <2>2, <2>3, <2>4
<1>5. CASE WI!LookAgain
  <2>1. /\ wiPc = "look"
        /\ UNCHANGED <<wiAccounts, wiRemoved, wiMapping, wiUnit, wiRunning, wiDevice>>
    BY <1>5 DEF WI!LookAgain, WI!World, WI!Files
  <2>2. CASE WI!Fetch(i) = WI!Failed
    BY <1>5, <2>1, <2>2, ScriptDone DEF WI!LookAgain
  <2>3. CASE WI!Fetch(i) # WI!Failed
    <3>1. /\ wiSeen' = [wiSeen EXCEPT ![i] = WI!Fetch(i)] /\ wiPc' = "enforce"
          /\ UNCHANGED <<wiJob, wiAt, wiRetries>>
      BY <1>5, <2>3 DEF WI!LookAgain
    <3>2. i \in 1..Len(wiSeen)
      BY <1>2, <2>1 DEF PlacesFit
    <3>3. WI!Fetch(i) \in Ips \union {WI!HostIp}
      BY <2>3, <3>2, FetchedWay DEF TunnelTypes
    <3> HIDE DEF i
    <3>4. wiSeen' \in Seq(Ips \union {WI!HostIp}) /\ Len(wiSeen') = Len(wiSeen)
      BY <3>1, <3>2, <3>3, ExceptSeq, LenProperties DEF TunnelTypes
    <3>5. TunnelTypes' /\ ListsOnce' /\ HasDevice'
      BY <2>1, <3>1, <3>4 DEF TunnelTypes, ListsOnce, NamesOnce, HasDevice
    <3>6. InPlace'
      BY <2>1, <3>1 DEF InPlace, PortOfOwn, BeginsAccounts
    <3>7. PlacesFit'
      BY <2>1, <3>1, <3>4 DEF PlacesFit
    <3> QED
      BY <3>5, <3>6, <3>7
  <2> QED
    BY <2>2, <2>3
<1>6. CASE WI!EnforceEnds
  BY <1>6, ScriptDone DEF WI!EnforceEnds, WI!World, WI!Files
<1> QED
  BY <1>3, <1>4, <1>5, <1>6

(* Theorem: the invariant of the tunnels holds throughout.                 *)
THEOREM TunnelInvariance ==
  ASSUME WI!WarpIsolationAssumption
  PROVE  WI!Spec => []TunnelInv
<1>1. WI!Init => TunnelInv
  <2> SUFFICES ASSUME WI!Init PROVE TunnelInv
    OBVIOUS
  <2> USE DEF WI!Init
  <2>1. NamesOnce(<<>>) /\ BeginsAccounts(<<>>)
    BY DEF NamesOnce, BeginsAccounts
  <2>2. IdCount \in Nat
    BY <2>1, ShortLists, EmptySeq
  <2>3. TunnelTypes /\ ListsOnce /\ HasDevice
    BY <2>1, <2>2, EmptySeq DEF TunnelTypes, ListsOnce, HasDevice
  <2>4. InPlace
    BY <2>1 DEF InPlace, PortOfOwn
  <2>5. PlacesFit
    <3>1. Len(wiJob) = 0
      OBVIOUS
    <3> QED
      BY <3>1, RetryLimit DEF PlacesFit
  <2> QED
    BY <2>3, <2>4, <2>5 DEF TunnelInv
<1>2. ASSUME TunnelInv, [WI!Next]_WI!wiVars PROVE TunnelInv'
  <2>1. CASE WI!AddAccount \/ WI!RemoveAccount
    BY <1>2, <2>1, EditStep
  <2>2. CASE WI!Reconnect \/ WI!Reboot
    BY <1>2, <2>2, TunnelReturns
  <2>3. CASE WI!Generate \/ WI!GenerateNext \/ WI!RegistrationRefused \/ WI!GenerateEnds
    BY <1>2, <2>3, GeneratorStep
  <2>4. CASE WI!StartUnit \/ WI!StartEnds
    BY <1>2, <2>4, StarterStep
  <2>5. CASE WI!EnforceBegins
    BY <1>2, <2>5, FirstLook
  <2>6. CASE WI!Reregister \/ WI!ReregisterFails \/ WI!LookAgain \/ WI!EnforceEnds
    BY <1>2, <2>6, EnforcerStep
  <2>7. CASE UNCHANGED WI!wiVars
    BY <1>2, <2>7 DEF WI!wiVars, TunnelInv, TunnelTypes, ListsOnce, NamesOnce, InPlace,
       BeginsAccounts, PortOfOwn, HasDevice, PlacesFit, WI!Colliding
  <2> QED
    BY <1>2, <2>1, <2>2, <2>3, <2>4, <2>5, <2>6, <2>7 DEF WI!Next
<1> QED
  BY <1>1, <1>2, PTL DEF WI!Spec

(* Theorem: the types of the tunnels; no list is longer than the accounts, *)
(* no port beyond them, and the retries stay within their number.          *)
THEOREM TunnelTypeCorrect ==
  ASSUME WI!WarpIsolationAssumption
  PROVE  WI!Spec => []WI!TypeOK
<1>1. TunnelInv => WI!TypeOK
  <2> SUFFICES ASSUME TunnelInv PROVE WI!TypeOK
    OBVIOUS
  <2>1. Len(wiJob) \in Nat /\ Len(wiJob) <= IdCount /\ IdCount \in Nat
    BY ShortLists, LenProperties DEF TunnelInv, TunnelTypes, ListsOnce
  <2>2. wiRetries \in 0..(MaxRetries * IdCount)
    BY <2>1, RetryLimit DEF TunnelInv, TunnelTypes, PlacesFit
  <2>3. wiAt \in 1..(IdCount + 1)
    BY <2>1 DEF TunnelInv, TunnelTypes, PlacesFit
  <2> QED
    BY <2>2, <2>3 DEF TunnelInv, TunnelTypes, WI!TypeOK, IdCount
<1> QED
  BY <1>1, TunnelInvariance, PTL

(* Theorem: while accounts are only added, no account's traffic goes       *)
(* through another's tunnel, and when the check says all is well each      *)
(* leaves through its own device, by an address of its own.                *)
THEOREM TunnelsAreOwn ==
  ASSUME WI!WarpIsolationAssumption
  PROVE  WI!Spec => [](WI!OwnTunnel /\ WI!VerifiedIsOwn)
<1>1. TunnelInv => WI!OwnTunnel
  <2> SUFFICES ASSUME TunnelInv, ~wiRemoved, NEW i \in DOMAIN wiMapping, NEW a \in Ids,
                      wiRunning[a] = i
               PROVE  a = wiMapping[i]
    BY DEF WI!OwnTunnel
  <2>1. i # 0
    BY LenProperties DEF TunnelInv, TunnelTypes
  <2>2. wiAccounts[i] = a
    BY <2>1 DEF TunnelInv, InPlace, PortOfOwn
  <2> QED
    BY <2>2 DEF TunnelInv, InPlace, BeginsAccounts
<1>2. TunnelInv /\ WI!OwnTunnel => WI!VerifiedIsOwn
  <2> SUFFICES ASSUME TunnelInv, WI!OwnTunnel, ~wiRemoved, WI!Verified(wiMapping)
               PROVE  \A i \in DOMAIN wiMapping :
                         /\ wiDevice[wiMapping[i]] \notin {WI!HostIp, WI!Failed}
                         /\ \A j \in DOMAIN wiMapping \ {i} :
                               wiDevice[wiMapping[j]] # wiDevice[wiMapping[i]]
    BY DEF WI!VerifiedIsOwn
  <2>1. DOMAIN wiMapping = 1..Len(wiMapping) /\ Len(wiMapping) \in Nat
    BY LenProperties DEF TunnelInv, TunnelTypes
  <2>2. ASSUME NEW i \in DOMAIN wiMapping
        PROVE  /\ WI!Up(wiMapping[i]) /\ WI!Fetch(i) \notin {WI!Failed, WI!HostIp}
               /\ WI!Fetch(i) \notin {WI!Fetch(n) :
                     n \in {m \in 1..(i - 1) : WI!Up(wiMapping[m])}} \ {WI!Failed, WI!HostIp}
    <3>1. WI!Status(wiMapping, i) = "ok"
      BY DEF WI!Verified
    <3> QED
      BY <3>1, Zenon DEF WI!Status
  <2>3. ASSUME NEW i \in DOMAIN wiMapping
        PROVE  WI!Fetch(i) = wiDevice[wiMapping[i]]
    <3>1. i \in Nat \ {0}
      BY <2>1
    <3>2. PICK a \in Ids : wiRunning[a] = i /\ WI!Fetch(i) = wiDevice[a]
      BY <2>2, <3>1, FetchedWay DEF TunnelInv
    <3> QED
      BY <3>2 DEF WI!OwnTunnel
  <2>4. ASSUME NEW i \in DOMAIN wiMapping, NEW j \in DOMAIN wiMapping, j < i
        PROVE  WI!Fetch(j) # WI!Fetch(i)
    <3>1. j \in {m \in 1..(i - 1) : WI!Up(wiMapping[m])}
      BY <2>1, <2>2, <2>4
    <3> QED
      BY <2>2, <3>1
  <2>5. ASSUME NEW i \in DOMAIN wiMapping, NEW j \in DOMAIN wiMapping, j # i
        PROVE  WI!Fetch(j) # WI!Fetch(i)
    BY <2>1, <2>4, <2>5
  <2> QED
    BY <2>2, <2>3, <2>5
<1> QED
  BY <1>1, <1>2, TunnelInvariance, PTL

(* Lemma: how many of the first addresses are distinct.                    *)
LEMMA DistinctOnes ==
  ASSUME NEW S, NEW seen \in Seq(S)
  PROVE  LET n == WI!DistinctUpTo(seen)
         IN  /\ n \in 0..Len(seen)
             /\ \A i, j \in 1..n : i # j => seen[i] # seen[j]
             /\ n < Len(seen) => \E i \in 1..n : seen[i] = seen[n + 1]
<1> DEFINE Repeated(n) == n < Len(seen) => \E i \in 1..n : seen[i] = seen[n + 1]
           Distinct(n) == \A i, j \in 1..n : i # j => seen[i] # seen[j]
           T == {n \in 0..Len(seen) : Repeated(n)}
<1>1. Len(seen) \in Nat
  BY LenProperties
<1>2. PICK n \in T : \A k \in T : n <= k
  <2>1. T \subseteq Nat /\ Len(seen) \in T
    BY <1>1
  <2> HIDE DEF T
  <2> QED
    BY <2>1, LeastExists
<1>3. n \in 0..Len(seen) /\ Repeated(n)
  BY <1>2
<1>4. Distinct(n)
  <2>1. ASSUME NEW i \in 1..n, NEW j \in 1..n, i < j, seen[i] = seen[j]
        PROVE  FALSE
    <3>1. j - 1 \in 0..Len(seen) /\ i \in 1..(j - 1) /\ (j - 1) + 1 = j /\ j - 1 < n
      BY <1>1, <1>3, <2>1
    <3>2. j - 1 \in T
      BY <2>1, <3>1
    <3> HIDE DEF T
    <3>3. n <= j - 1
      BY <1>2, <3>2
    <3> QED
      BY <1>3, <3>1, <3>3
  <2> QED
    BY <1>3, <2>1
<1>5. \E m \in 0..Len(seen) : Distinct(m) /\ Repeated(m)
  BY <1>3, <1>4
<1> QED
  BY <1>5 DEF WI!DistinctUpTo

(* Theorem: registering devices anew makes progress in the order of the    *)
(* mapping, the accounts before the first collision keep distinct          *)
(* addresses.                                                              *)
THEOREM UniqueKept ==
  ASSUME WI!WarpIsolationAssumption
  PROVE  WI!Spec => [][WI!UniqueStay]_WI!wiVars
<1>1. ASSUME TunnelInv, WI!Next PROVE WI!UniqueStay
  <2> SUFFICES ASSUME WI!Enforcing, WI!Enforcing', wiSeen' # wiSeen
               PROVE  WI!DistinctUpTo(wiSeen') >= WI!DistinctUpTo(wiSeen)
    <3>1. /\ WI!DistinctUpTo(wiSeen) \in 0..Len(wiSeen) /\ Len(wiSeen) \in Nat
      BY <1>1, DistinctOnes, LenProperties DEF TunnelInv, TunnelTypes
    <3>2. WI!DistinctUpTo(wiSeen) >= WI!DistinctUpTo(wiSeen)
      BY <3>1
    <3>3. CASE wiSeen' = wiSeen
      BY <3>2, <3>3 DEF WI!UniqueStay
    <3> QED
      BY <3>3 DEF WI!UniqueStay
  <2> DEFINE i == WI!First(WI!Colliding(wiSeen))
             n == WI!DistinctUpTo(wiSeen)
             m == WI!DistinctUpTo(wiSeen')
  <2>1. /\ wiPc = "look" /\ wiSeen' = [wiSeen EXCEPT ![i] = WI!Fetch(i)]
    BY <1>1, Zenon DEF WI!Next, WI!Enforcing, WI!AddAccount, WI!RemoveAccount, WI!Edit,
       WI!Reconnect, WI!Reboot, WI!Generate, WI!GenerateNext, WI!RegistrationRefused,
       WI!GenerateEnds, WI!StartUnit, WI!StartEnds, WI!EnforceBegins, WI!Reregister,
       WI!ReregisterFails, WI!LookAgain, WI!EnforceEnds, WI!Done, WI!Search
  <2>2. /\ i \in 1..Len(wiSeen) /\ i \in WI!Colliding(wiSeen)
        /\ Len(wiSeen) \in Nat
    BY <1>1, <2>1, FirstColliding, LenProperties DEF TunnelInv, PlacesFit, TunnelTypes
  <2>3. PICK j \in 1..(i - 1) : wiSeen[j] = wiSeen[i]
    BY <2>2 DEF WI!Colliding
  <2> HIDE DEF i
  <2>4. /\ n \in 0..Len(wiSeen)
        /\ \A k, l \in 1..n : k # l => wiSeen[k] # wiSeen[l]
    BY <1>1, DistinctOnes DEF TunnelInv, TunnelTypes
  <2>5. n < i
    BY <2>2, <2>3, <2>4
  <2>6. /\ wiSeen' \in Seq(Ips \union {WI!HostIp, WI!Fetch(i)}) /\ Len(wiSeen') = Len(wiSeen)
        /\ \A k \in 1..Len(wiSeen) : k # i => wiSeen'[k] = wiSeen[k]
    <3>1. wiSeen \in Seq(Ips \union {WI!HostIp, WI!Fetch(i)})
      BY <1>1 DEF TunnelInv, TunnelTypes
    <3> QED
      BY <2>1, <2>2, <3>1, ExceptSeq, LenProperties
  <2>7. /\ m \in 0..Len(wiSeen)
        /\ m < Len(wiSeen) => \E k \in 1..m : wiSeen'[k] = wiSeen'[m + 1]
    BY <2>6, DistinctOnes
  <2> HIDE DEF n, m
  <2>8. ASSUME m < n PROVE FALSE
    <3>1. PICK k \in 1..m : wiSeen'[k] = wiSeen'[m + 1]
      BY <2>2, <2>4, <2>7, <2>8
    <3>2. /\ k \in 1..n /\ m + 1 \in 1..n /\ k # m + 1
          /\ k \in 1..Len(wiSeen) /\ m + 1 \in 1..Len(wiSeen) /\ k # i /\ m + 1 # i
      BY <2>2, <2>4, <2>5, <2>7, <2>8, <3>1
    <3> QED
      BY <2>4, <2>6, <3>1, <3>2
  <2> QED
    BY <2>4, <2>7, <2>8 DEF n, m
<1> QED
  BY <1>1, TunnelInvariance, PTL DEF WI!Spec

===============================================================================
