------------------------------ MODULE ProxyPool ------------------------------
(***************************************************************************)
(* The pool of outbound proxies (proxy_pool.rs) as upstream calls use it   *)
(* (upstream/client/mod.rs): a client is chosen; a call of an account then *)
(* asks the pool again for the effective proxy, a plain one                *)
(* (call_v1_internal, call_v1_internal_with_headers) does not. An address  *)
(* given with the call goes before the pool. And update_config. Each of    *)
(* the pool's fields has its own lock: select_proxy_url reads mode, then   *)
(* holds the list while it waits for the strategy; update_config takes     *)
(* mode, strategy, list and custom address in this order and holds them    *)
(* all, while its caller holds the shared configuration (SharedConfig      *)
(* shows that this caller never gets here).                                *)
(***************************************************************************)
EXTENDS Naturals, Sequences

CONSTANTS ProxyConfigs,     \* configurations: [mode, strategy, urls, custom, enforce]
          FirstConfig,
          OwnProxies,       \* addresses given with a call: WARP's, the account's proxy_url
          ProxyCalls,       \* who may call upstream at once
          PlainCalls,       \* those that name no account (call_v1_internal)
          HashOf,           \* the hash of each call's account
          CounterCycle      \* where the counter wraps

NoUrl == "no url"

(* The program's counter wraps at 2^64. A run takes a smaller cycle, a     *)
(* multiple of every list's length, by which a turn means the same proxy   *)
(* before and after.                                                       *)
ProxyPoolAssumption ==
    /\ FirstConfig \in ProxyConfigs
    /\ \A config \in ProxyConfigs :
           Len(config.urls) \in Nat /\ DOMAIN config.urls = 1 .. Len(config.urls)
    /\ CounterCycle \in Nat \ {0}
    /\ PlainCalls \subseteq ProxyCalls /\ HashOf \in [ProxyCalls -> Nat]

VARIABLES ppConfig,         \* mode, strategy, proxy_urls, custom_url; enforce_proxy
          ppCounter,        \* rr_counter
          ppClients,        \* addresses a client is cached for
          ppUpdate,         \* update_config: the locks it holds so far
          ppCall,           \* per call: where it is, which selection, the client's proxy
          ppNamed,          \* history: per call, the ways out configured while it was at work
          ppServed,         \* history: proxies that carried a request in this round of the list,
                            \* at most since the last update
          ppOrderly         \* history: no call met another, failed or was dropped since then

ppVars == <<ppConfig, ppCounter, ppClients, ppUpdate, ppCall, ppNamed, ppServed, ppOrderly>>

IdleCall == [at |-> "idle", second |-> FALSE, client |-> NoUrl]

Init == /\ ppConfig = FirstConfig
        /\ ppCounter = 0 /\ ppClients = {}
        /\ ppUpdate = {}
        /\ ppCall = [c \in ProxyCalls |-> IdleCall]
        /\ ppNamed = [c \in ProxyCalls |-> {}]
        /\ ppServed = {} /\ ppOrderly = TRUE

Size == Len(ppConfig.urls)
Listed(config) == {config.urls[i] : i \in DOMAIN config.urls}
Busy(c) == ppCall[c].at # "idle"
Stays == UNCHANGED <<ppConfig, ppCounter, ppClients, ppUpdate, ppNamed, ppServed, ppOrderly>>

(* What a configuration lets a call use, and what a call may have read of  *)
(* one that came while it was at work: each field by itself.               *)
WaysOut(config) ==
    IF config.mode = "pool" THEN Listed(config)
    ELSE IF config.mode = "custom" THEN {config.custom} \ {NoUrl}
    ELSE IF config.enforce THEN {} ELSE {NoUrl}
PartsOf(config) ==
    Listed(config) \union ({config.custom} \ {NoUrl})
    \union (IF config.mode = "direct" THEN {NoUrl} ELSE {})

-----------------------------------------------------------------------------
(* A call with an address of its own takes that client and logs that       *)
(* address; the pool is not asked.                                         *)
UseOwn(c, url) ==
    /\ ~Busy(c)
    /\ ppClients' = ppClients \union {url}
    /\ UNCHANGED <<ppConfig, ppCounter, ppUpdate, ppCall, ppNamed, ppServed, ppOrderly>>

(* With its client a plain call is sent, any other selects once more.       *)
AfterClient(c, url) ==
    [at |-> IF c \in PlainCalls THEN "send" ELSE "mode",
     second |-> c \notin PlainCalls, client |-> url]

(* Any other call: the shared configuration says whether the pool chooses  *)
(* the client (get_client_for_account), it is the plain one, or            *)
(* enforce_proxy forbids the plain one.                                    *)
Begin(c) ==
    /\ ~Busy(c) /\ ppUpdate = {}
    /\ ppConfig.mode = "direct" => ~ppConfig.enforce
    /\ ppCall' = [ppCall EXCEPT ![c] =
           IF ppConfig.mode = "direct" THEN AfterClient(c, NoUrl)
           ELSE [at |-> "mode", second |-> FALSE, client |-> NoUrl]]
    /\ ppNamed' = [ppNamed EXCEPT ![c] = WaysOut(ppConfig)]
    /\ ppOrderly' = (ppOrderly /\ \A d \in ProxyCalls : ~Busy(d))
    /\ UNCHANGED <<ppConfig, ppCounter, ppClients, ppUpdate, ppServed>>

Go(c, where) == ppCall' = [ppCall EXCEPT ![c].at = where] /\ Stays

(* The first selection names the client's proxy; the second only the proxy *)
(* to log.                                                                 *)
Selected(c, url) ==
    ppCall' = IF ppCall[c].second THEN [ppCall EXCEPT ![c].at = "send"]
              ELSE [ppCall EXCEPT ![c].at = "client", ![c].client = url]

(* A call that fails or is dropped at any of its waits is over; so is one  *)
(* that was sent.                                                          *)
Over(c) ==
    /\ ppCall' = [ppCall EXCEPT ![c] = IdleCall]
    /\ ppNamed' = [ppNamed EXCEPT ![c] = {}]
    /\ UNCHANGED <<ppConfig, ppCounter, ppUpdate>>
Fail(c) == Over(c) /\ ppOrderly' = FALSE /\ UNCHANGED <<ppClients, ppServed>>
Drop(c) == Busy(c) /\ Fail(c)

\* Mutant of NoProxy: a pool without proxies is passed by.
NoProxyGoesDirect(c) == Selected(c, NoUrl) /\ Stays
NoProxy(c) == Fail(c)

(* select_proxy_url: in Direct and System no proxy, in Custom the one      *)
(* address, in Pool one of the list; nothing to use is an error.           *)
ReadMode(c) ==
    /\ ppCall[c].at = "mode" /\ "mode" \notin ppUpdate
    /\ \/ ppConfig.mode = "direct" /\ Selected(c, NoUrl) /\ Stays
       \/ ppConfig.mode = "custom" /\ Go(c, "custom")
       \/ ppConfig.mode = "pool" /\ Go(c, "urls")

ReadCustom(c) ==
    /\ ppCall[c].at = "custom"
    /\ IF ppConfig.custom = NoUrl THEN Fail(c) ELSE Selected(c, ppConfig.custom) /\ Stays

ReadUrls(c) ==
    /\ ppCall[c].at = "urls" /\ "urls" \notin ppUpdate
    /\ IF Size = 0 THEN NoProxy(c) ELSE Go(c, "strategy")

(* A plain call names no account, which PerAccount refuses.                *)
Pick(c) ==
    /\ ppCall[c].at = "strategy" /\ "strategy" \notin ppUpdate
    /\ \/ /\ ppConfig.strategy = "roundRobin"
          /\ Selected(c, ppConfig.urls[(ppCounter % Size) + 1])
          /\ ppCounter' = (ppCounter + 1) % CounterCycle
          /\ UNCHANGED <<ppConfig, ppClients, ppUpdate, ppNamed, ppServed, ppOrderly>>
       \/ /\ ppConfig.strategy = "random"
          /\ \E i \in 1 .. Size : Selected(c, ppConfig.urls[i])
          /\ Stays
       \/ /\ ppConfig.strategy = "perAccount" /\ c \notin PlainCalls
          /\ Selected(c, ppConfig.urls[(HashOf[c] % Size) + 1])
          /\ Stays
       \/ ppConfig.strategy = "perAccount" /\ c \in PlainCalls /\ Fail(c)

(* get_client, then get_or_create_client: the plain client, the one that   *)
(* is cached, or one built under the write lock of the cache, which may    *)
(* fail.                                                                   *)
GetClient(c) ==
    LET url == ppCall[c].client IN
    /\ ppCall[c].at = "client"
    /\ \/ /\ ppClients' = ppClients \union ({url} \ {NoUrl})
          /\ ppCall' = [ppCall EXCEPT ![c] = AfterClient(c, url)]
          /\ UNCHANGED <<ppConfig, ppCounter, ppUpdate, ppNamed, ppServed, ppOrderly>>
       \/ url \notin ppClients \union {NoUrl} /\ Fail(c)

(* execute_with_fallback, through the client's proxy. A round of the list  *)
(* is over when each of its proxies has carried a request.                 *)
Send(c) ==
    /\ ppCall[c].at = "send" /\ Over(c)
    /\ ppServed' = LET served == ppServed \union ({ppCall[c].client} \ {NoUrl})
                   IN  IF Listed(ppConfig) \subseteq served THEN {} ELSE served
    /\ UNCHANGED <<ppClients, ppOrderly>>

-----------------------------------------------------------------------------
(* update_config. A write lock waits for the readers: only the list is     *)
(* held by a reader across a wait.                                         *)
Take(lock) ==
    /\ ppUpdate' = ppUpdate \union {lock}
    /\ UNCHANGED <<ppConfig, ppCounter, ppClients, ppCall, ppNamed, ppServed, ppOrderly>>
ListRead == \E c \in ProxyCalls : ppCall[c].at = "strategy"

UpdateMode == ppUpdate = {} /\ Take("mode")
UpdateStrategy == ppUpdate = {"mode"} /\ Take("strategy")
(* The two lock orders can cross here: a selection holds the list and      *)
(* waits for the strategy, the update holds the strategy and waits for the *)
(* list. Only a call that is dropped resolves it.                          *)
UpdateUrls == ppUpdate = {"mode", "strategy"} /\ ~ListRead /\ Take("urls")

(* All four locks held: fields replaced, clients of dropped addresses gone. *)
UpdateConfig(new) ==
    /\ ppUpdate = {"mode", "strategy", "urls"}
    /\ ppConfig' = new
    /\ ppClients' = IF new.urls = ppConfig.urls THEN ppClients ELSE ppClients \intersect Listed(new)
    /\ ppUpdate' = {}
    /\ ppNamed' = [c \in ProxyCalls |-> IF Busy(c) THEN ppNamed[c] \union PartsOf(new) ELSE {}]
    /\ ppServed' = {}
    /\ ppOrderly' = \A c \in ProxyCalls : ~Busy(c)
    /\ UNCHANGED <<ppCounter, ppCall>>

Next == \/ \E c \in ProxyCalls : Begin(c) \/ ReadMode(c) \/ ReadCustom(c) \/ ReadUrls(c) \/ Pick(c)
        \/ \E c \in ProxyCalls : GetClient(c) \/ Send(c) \/ Drop(c)
        \/ \E c \in ProxyCalls, url \in OwnProxies : UseOwn(c, url)
        \/ UpdateMode \/ UpdateStrategy \/ UpdateUrls
        \/ \E new \in ProxyConfigs : UpdateConfig(new)

Spec == Init /\ [][Next]_ppVars

-----------------------------------------------------------------------------
TypeOK ==
    /\ ppConfig \in ProxyConfigs /\ ppCounter \in 0 .. CounterCycle - 1
    /\ ppUpdate \subseteq {"mode", "strategy", "urls"}
    /\ \A c \in ProxyCalls : ppCall[c].at \in
           {"idle", "mode", "custom", "urls", "strategy", "client", "send"}
    /\ ppOrderly \in BOOLEAN

(* "Never silently falls back to direct connection" (proxy_pool.rs:230,    *)
(* 300): whatever mode, list and strategy are while a call reads them one  *)
(* by one, it goes out only by a way that was configured at some moment of *)
(* that very call.                                                         *)
ProxyHonoured ==
    \A c \in ProxyCalls : ppCall[c].at = "send" => ppCall[c].client \in ppNamed[c]

(* "Evenly distributes requests across all proxies" (proxy_pool.rs:4): in  *)
(* round robin no proxy carries a second request before each proxy of the  *)
(* list has carried one, as long as no call met another, failed or was     *)
(* dropped. The code takes a turn for the client of a request and another  *)
(* for the proxy it logs (upstream/client/mod.rs:177-179).                 *)
EvenlyDistributed ==
    ppOrderly /\ ppConfig.mode = "pool" /\ ppConfig.strategy = "roundRobin"
        => \A c \in ProxyCalls : ppCall[c].at = "send" => ppCall[c].client \notin ppServed
=============================================================================
