--------------------------- MODULE SettingsDialog ---------------------------
(***************************************************************************)
(* The settings dialog of Free Studio (LlmSettingsDialog in gui/free_app.py) *)
(* and its look-ups of a provider's model list.  Each look-up runs in a      *)
(* thread of its own, answers with a queued signal in any order, and is     *)
(* never stopped; a timer starts one after the provider, the base URL or    *)
(* the API key has changed.                                                 *)
(***************************************************************************)
EXTENDS Naturals

CONSTANTS Http,        \* providers reached over HTTP
          Keyed,       \* those of them that take an API key
          Cli,         \* providers with a static model list
          Urls, Keys,  \* base URLs and API keys the user may type
          DefaultUrl,  \* default base URL of each HTTP provider
          NoKey,       \* the empty API key
          NoUrl,       \* no base URL
          MaxEdits     \* bound on the user's edits and refreshes

Providers == Http \cup Cli

ASSUME DialogAssumption ==
    /\ Http \cap Cli = {} /\ Keyed \subseteq Http
    /\ DefaultUrl \in [Http -> Urls] /\ NoKey \in Keys /\ NoUrl \notin Urls
    /\ MaxEdits \in Nat

VARIABLES
    open,      \* the dialog is shown
    provider, url, key,    \* what its fields say; url and key with their defaults put in
    model,     \* the selected model, with the provider it is a model of
    catalog,   \* where the list of models came from
    refresh,   \* the Refresh button is enabled
    timer,     \* the discovery timer is running
    gen,       \* _model_discovery_generation
    lookups,   \* look-ups that have not answered
    edits      \* edits and refreshes of the user

dialog == <<open, provider, url, key, model, catalog, refresh, timer, gen, lookups, edits>>

Static(p) == [provider |-> p, url |-> NoUrl, key |-> NoKey]
Sources == [provider : Providers, url : Urls \cup {NoUrl}, key : Keys]
Models == Providers \X {"default", "found"}

DialogTypeOK ==
    /\ {open, refresh, timer} \subseteq BOOLEAN
    /\ provider \in Providers /\ url \in Urls \cup {NoUrl} /\ key \in Keys
    /\ model \in Models /\ catalog \in Sources /\ model[1] = provider
    /\ gen \in Nat /\ edits \in 0..MaxEdits
    /\ lookups \subseteq [gen : 1..gen, source : Sources]
    /\ timer => open /\ provider \in Http

DefaultUrlOf(p) == IF p \in Http THEN DefaultUrl[p] ELSE NoUrl

DialogInit ==     \* _load_config_values
    /\ open = TRUE
    /\ provider \in Providers
    /\ url \in IF provider \in Http THEN Urls ELSE {NoUrl}
    /\ key \in IF provider \in Keyed THEN Keys ELSE {NoKey}
    /\ model = <<provider, "default">> /\ catalog = Static(provider)
    /\ refresh = (provider \in Http) /\ timer = (provider \in Http)
    /\ gen = IF provider \in Http THEN 0 ELSE 1
    /\ lookups = {} /\ edits = 0

-----------------------------------------------------------------------------
Edit == open /\ edits < MaxEdits /\ edits' = edits + 1

(* _schedule_model_discovery: an HTTP provider starts the timer, another    *)
(* one makes what is under way stale.                                       *)
Schedule(p) ==
    /\ timer' = (p \in Http)
    /\ gen' = IF p \in Http THEN gen ELSE gen + 1

\* The key of the new provider is the stored one: any.
ProviderChanged(p, k) ==
    /\ Edit /\ p # provider /\ (p \notin Keyed => k = NoKey)
    /\ provider' = p /\ url' = DefaultUrlOf(p) /\ key' = k
    /\ model' = <<p, "default">> /\ catalog' = Static(p)
    /\ refresh' = (p \in Http)
    /\ Schedule(p)
    /\ UNCHANGED <<open, lookups>>

\* What could be wrong: the answer for the old URL is dropped and nothing asks the new one.
EditUrlQuietly(u) ==
    /\ Edit /\ provider \in Http /\ u # url
    /\ url' = u
    /\ UNCHANGED <<open, provider, key, model, catalog, refresh, timer, gen, lookups>>

EditUrl(u) ==
    /\ Edit /\ provider \in Http /\ u # url
    /\ url' = u /\ Schedule(provider)
    /\ UNCHANGED <<open, provider, key, model, catalog, refresh, lookups>>

EditKey(k) ==
    /\ Edit /\ provider \in Keyed /\ k # key
    /\ key' = k /\ Schedule(provider)
    /\ UNCHANGED <<open, provider, url, model, catalog, refresh, lookups>>

PickModel ==     \* from the list; a name typed by hand is the user's business
    /\ open /\ model' = <<catalog.provider, IF catalog.url = NoUrl THEN "default" ELSE "found">>
    /\ model' # model
    /\ UNCHANGED <<open, provider, url, key, catalog, refresh, timer, gen, lookups, edits>>

StartLookup ==
    /\ gen' = gen + 1
    /\ refresh' = FALSE /\ timer' = FALSE
    /\ lookups' = lookups \cup
          {[gen |-> gen', source |-> [provider |-> provider, url |-> url, key |-> key]]}
    /\ UNCHANGED <<open, provider, url, key, model, catalog>>

RefreshNow == Edit /\ refresh /\ StartLookup
TimerFires == timer /\ StartLookup /\ UNCHANGED edits

\* What could be wrong: answers of earlier look-ups of the same endpoint pass.
CurrentEndpoint(l) == l.source.provider = provider /\ l.source.url = url

Current(l) == l.gen = gen /\ l.source.provider = provider /\ l.source.url = url

(* The answer of a look-up, or the static list if it failed.  The selected  *)
(* model stays; no answer after the dialog was closed is current.           *)
Completed(l) ==
    /\ l \in lookups /\ lookups' = lookups \ {l}
    /\ IF Current(l)
          THEN catalog' \in {l.source, Static(provider)} /\ refresh' = TRUE
          ELSE UNCHANGED <<catalog, refresh>>
    /\ UNCHANGED <<open, provider, url, key, model, timer, gen, edits>>

Close ==     \* OK, Cancel or the window's button: done, closeEvent
    /\ open /\ open' = FALSE
    /\ gen' = gen + 1 /\ timer' = FALSE
    /\ UNCHANGED <<provider, url, key, model, catalog, refresh, lookups, edits>>

-----------------------------------------------------------------------------
DialogUser ==
    \/ \E p \in Providers, k \in Keys : ProviderChanged(p, k)
    \/ \E u \in Urls : EditUrl(u)
    \/ \E k \in Keys : EditKey(k)
    \/ PickModel \/ RefreshNow \/ Close

Answer == \E l \in lookups : Completed(l)

DialogNext == DialogUser \/ TimerFires \/ Answer

DialogFairness == WF_dialog(TimerFires) /\ WF_dialog(Answer)
DialogSpec == DialogInit /\ [][DialogNext]_dialog /\ DialogFairness

-----------------------------------------------------------------------------
(* Properties.                                                              *)

\* When no look-up of the current generation is under way and none is due, the list
\* belongs to what the fields say now (or is the provider's static list), and Refresh
\* can be pressed: answers for an older provider, URL or key never settle
\* (_model_discovery_completed).  Once the dialog is closed no answer is accepted.
SettledCatalog ==
    /\ open /\ ~timer /\ (\A l \in lookups : l.gen # gen) =>
        /\ catalog \in {[provider |-> provider, url |-> url, key |-> key], Static(provider)}
        /\ refresh = (provider \in Http)
    /\ ~open => \A l \in lookups : ~Current(l)

\* Once the user leaves the fields alone, Refresh of an HTTP provider is enabled again:
\* no dropped answer leaves the button disabled for good.
RefreshComesBack == <>[](open /\ provider \in Http => refresh)
=============================================================================
