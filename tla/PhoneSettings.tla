---------------------------- MODULE PhoneSettings ----------------------------
(* state/settings.tsx, app/settings/server.tsx and state/reports.tsx of the *)
(* phone app: the server it talks to, as the screens have it and as storage *)
(* has it (the address and the key under two names, which the background    *)
(* check reads by itself), the connection test and the report gallery.      *)
(* Languages, sounds and looks are one other setting.                       *)
EXTENDS Integers, Sequences, FiniteSets

CONSTANTS Urls, Keys, None,      \* None: no address, or no key
          MaxSaves, MaxAttempts, MaxKills

SettingsAssumption == None \notin Urls \cup Keys /\ {MaxSaves, MaxAttempts, MaxKills} \subseteq Nat

VARIABLES ready, server,       \* the provider's
          look,                \* another setting, shown and
          stored,              \* storage: address, key and that other setting
          writes,              \* calls of set() that are not over, per name and in order
          draft, check, tests, \* the server screen: its fields, what it says, the test under way
          attempt, loaded,     \* the report gallery
          lists,               \* listTemplates() under way: key, and whether its effect is live
          lost,                \* a write failed since the app was started
          saves, kills

settingVars == <<ready, server, look, stored, writes, lost>>
formVars == <<draft, check, tests>>
galleryVars == <<attempt, loaded, lists>>
vars == <<settingVars, formVars, galleryVars, saves, kills>>

Configs == [url : Urls \cup {None}, key : Keys \cup {None}]
NoConfig == [url |-> None, key |-> None]
Key == <<server, attempt>>
Loaded(key, found) == [key |-> key, found |-> found]
Idle == [url |-> <<>>, key |-> <<>>, look |-> <<>>]

TypeOK ==
    /\ ready \in BOOLEAN /\ lost \in BOOLEAN /\ server \in Configs /\ draft \in Configs /\ look \in BOOLEAN
    /\ stored \in [url : Urls \cup {None}, key : Keys \cup {None}, look : BOOLEAN]
    /\ check \in {"idle", "checking", "ok", "warn", "fail"} /\ tests \subseteq Configs
    /\ loaded.found \in {"nothing", "templates", "none", "error"}
    /\ lists \subseteq [key : Configs \X (0 .. MaxAttempts), live : BOOLEAN]

Init == /\ ready = FALSE /\ server = NoConfig /\ look = FALSE
        /\ stored = [url |-> None, key |-> None, look |-> FALSE] /\ writes = Idle /\ lost = FALSE
        /\ draft = NoConfig /\ check = "idle" /\ tests = {}
        /\ attempt = 0 /\ loaded = Loaded(<<>>, "nothing") /\ lists = {} /\ saves = 0 /\ kills = 0
-----------------------------------------------------------------------------
(* The gallery loads again whenever the server or the attempt changes, and   *)
(* what was asked before no longer counts.                                   *)

Reloads(cfg, n, isReady) ==
    lists' = {[l EXCEPT !.live = FALSE] : l \in lists}
             \cup (IF isReady /\ cfg.url # None THEN {[key |-> <<cfg, n>>, live |-> TRUE]} ELSE {})

\* A 404 is a server without reports, which is no error.
Listed(l) == \E found \in {"templates", "none", "error"} :
                 /\ loaded' = IF l.live THEN Loaded(l.key, found) ELSE loaded
                 /\ lists' = lists \ {l}

List == \E l \in lists : Listed(l) /\ UNCHANGED <<settingVars, formVars, attempt, saves, kills>>

Reload == /\ ready /\ kills + attempt < MaxAttempts
          /\ attempt' = attempt + 1 /\ Reloads(server, attempt + 1, TRUE)
          /\ UNCHANGED <<settingVars, formVars, loaded, saves, kills>>

current == loaded.key = Key
loading == server.url # None /\ ~current
error == current /\ loaded.found = "error"
-----------------------------------------------------------------------------
(* Settings *)

Load == /\ ~ready
        /\ ready' = TRUE /\ server' = [url |-> stored.url, key |-> stored.key] /\ look' = stored.look
        /\ draft' = server'
        /\ Reloads(server', attempt, TRUE)
        /\ UNCHANGED <<stored, writes, lost, check, tests, attempt, loaded, saves, kills>>

set(cfg) == [writes EXCEPT !.url = Append(@, cfg.url), !.key = Append(@, cfg.key)]

save(cfg) == /\ server' = cfg /\ writes' = set(cfg)
             /\ Reloads(cfg, attempt, TRUE)

\* Save on the server screen; the screen is left when both are written, and may
\* be left before.
Done == /\ ready /\ saves + kills < MaxSaves
        /\ saves' = saves + 1 /\ save(draft)
        /\ UNCHANGED <<ready, look, stored, lost, formVars, attempt, loaded, kills>>

setAppearance == /\ saves + kills < MaxSaves
                 /\ saves' = saves + 1 /\ look' = ~look /\ writes' = [writes EXCEPT !.look = Append(@, ~look)]
                 /\ UNCHANGED <<ready, server, stored, lost, formVars, galleryVars, kills>>

\* A set() that fails says nothing: the app goes on with what it has in memory.
Write(name) == /\ writes[name] # <<>>
               /\ \/ stored' = [stored EXCEPT ![name] = Head(writes[name])] /\ UNCHANGED lost
                  \/ lost' = TRUE /\ UNCHANGED stored
               /\ writes' = [writes EXCEPT ![name] = Tail(@)]
               /\ UNCHANGED <<ready, server, look, formVars, galleryVars, saves, kills>>

\* The phone ends the app: writes not yet made are lost, with all that is not in
\* storage.
Kill == /\ attempt + kills < MaxKills
        /\ kills' = kills + 1 /\ ready' = FALSE /\ server' = NoConfig /\ look' = FALSE /\ writes' = Idle /\ lost' = FALSE
        /\ draft' = NoConfig /\ check' = "idle" /\ tests' = {}
        /\ attempt' = 0 /\ loaded' = Loaded(<<>>, "nothing") /\ lists' = {}
        /\ UNCHANGED <<stored, saves>>

\* What the background check of the inbox reads.
loadServerConfig == [url |-> stored.url, key |-> stored.key]
-----------------------------------------------------------------------------
(* The server screen *)

\* While a save is to come (bound): the fields matter only to one.
Type == \E cfg \in Configs : /\ ready /\ cfg # draft /\ saves + kills < MaxSaves
                             /\ draft' = cfg
                             /\ UNCHANGED <<settingVars, check, tests, galleryVars, saves, kills>>

Test == /\ ready /\ check # "checking"
        /\ check' = "checking" /\ tests' = {draft}
        /\ UNCHANGED <<settingVars, draft, galleryVars, saves, kills>>

Tested == \E test \in tests, says \in {"ok", "warn", "fail"} :
              /\ test.url = None => says = "fail"
              /\ check' = says /\ tests' = tests \ {test}
              /\ UNCHANGED <<settingVars, draft, galleryVars, saves, kills>>

Next == List \/ Reload \/ Load \/ Done \/ setAppearance \/ (\E n \in DOMAIN writes : Write(n)) \/ Kill
        \/ Type \/ Test \/ Tested
-----------------------------------------------------------------------------
(* When nothing is being written, and no write failed, the check that runs   *)
(* without the screens talks to the server the screens show, with its key:   *)
(* never with the key of the server before, also when a key was removed or   *)
(* two saves overlapped.                                                     *)
BackgroundAgrees == ready /\ writes = Idle /\ ~lost => loadServerConfig = server

(* The gallery waits only for an answer that is still coming, and an error   *)
(* it shows is of the server it shows: a late answer of the server before    *)
(* changes nothing.                                                          *)
GalleryOfServer ==
    /\ ready /\ loading => \E l \in lists : l.live /\ l.key = Key
    /\ error => loaded.key[1] = server
=============================================================================
