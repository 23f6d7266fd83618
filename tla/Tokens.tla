------------------------------- MODULE Tokens -------------------------------
(***************************************************************************)
(* Allegro's tokens: the settings that hold them, the copy of the settings *)
(* every gunicorn worker keeps, and those who replace them: the refresher  *)
(* thread, calls that are answered 401, the synchronisation of offers, the *)
(* settings page, which writes back what its form showed, and the admin.   *)
(*                                                                         *)
(* Allegro issues pairs, here 1, 2, ...: an access token, which expires,   *)
(* and a refresh token, which it takes once: only the newest is accepted.  *)
(***************************************************************************)
EXTENDS Integers, FiniteSets

CONSTANTS
  Workers, Sched,   \* the workers; the one that runs the refresher
  Refresher,        \* its thread, not in Workers
  Callers,          \* bound: the workers whose calls to Allegro are modelled
  MaxExpiries, MaxFaults, MaxOthers  \* bounds: expiries, failures and kills; forms opened
                                     \* and other settings written, authorisations

VARIABLES
  newest, expired,   \* Allegro: the newest pair; the pairs up to here have expired
  db,                \* app_settings: the tokens, the pair whose expiry is stored
  cache,             \* settings_store of a worker
  behind,            \* the workers whose copy has an older updated_at than the settings
  work,              \* the refresher, and a call of each worker
  failures, alerted, \* _consecutive_failures, _notification_sent
  form,              \* the settings page as the admin sees it
  cut,               \* history: why the newest refresh token may not be stored
  spent              \* what the bounds are about, so far

vars == <<newest, expired, db, cache, behind, work, failures, alerted, form, cut, spent>>
allegro == <<newest, expired>>
settings == <<db, cache, behind>>
alarm == <<failures, alerted>>

Sessions == Callers \cup {Refresher}
Worker(s) == IF s = Refresher THEN Sched ELSE s
NoToken == 0
Pair(n) == [refresh |-> n, access |-> n, due |-> n]
Idle == [step |-> "idle", offers |-> FALSE, access |-> NoToken, token |-> NoToken]

Init ==
  /\ newest = 1 /\ expired = 0
  /\ db = Pair(1) /\ cache = [w \in Workers |-> db] /\ behind = {}
  /\ work = [s \in Sessions |-> Idle]
  /\ failures = 0 /\ alerted = FALSE
  /\ form = [open |-> FALSE, refresh |-> NoToken, access |-> NoToken] /\ cut = FALSE
  /\ spent = [expiries |-> 0, faults |-> 0, others |-> 0, logins |-> 0]

Spend(what, max) == spent[what] < max /\ spent' = [spent EXCEPT ![what] = @ + 1]
Fault == Spend("faults", MaxFaults)

-----------------------------------------------------------------------------
(* settings_store.                                                         *)

(* _refresh_if_stale: a row that is gone stays in the copy *)
Fresh(w) ==
  IF w \notin behind THEN cache[w]
  ELSE [db EXCEPT !.access = IF @ = NoToken THEN cache[w].access ELSE @]
Reads(w) == cache' = [cache EXCEPT ![w] = Fresh(w)] /\ behind' = behind \ {w} /\ UNCHANGED db

(* update: the copy counts as fresh afterwards, whatever it missed *)
Write(w, rows, copy) ==
  /\ db' = rows /\ cache' = [cache EXCEPT ![w] = copy] /\ behind' = Workers \ {w}

(* _invalidate_access_token: the row is gone and MAX(updated_at) has not grown;
   the expiry is still known from ALLEGRO_TOKEN_EXPIRES_AT *)
Delete(w) ==
  /\ db' = [db EXCEPT !.access = NoToken] /\ cache' = [cache EXCEPT ![w].access = NoToken]
  /\ behind' = behind \ {w}

-----------------------------------------------------------------------------
(* The exchange of a refresh token, by whoever holds one.                  *)

Set(s, job) == work' = [work EXCEPT ![s] = job]
Failed(s) ==
  IF s = Refresher
  THEN failures' = (IF failures < 3 THEN failures + 1 ELSE 3) /\ alerted' = (alerted \/ failures >= 2)
  ELSE UNCHANGED alarm

Exchange(s) ==
  /\ work[s].step = "exchange" /\ work[s].token = newest
  /\ newest' = newest + 1 /\ Set(s, [work[s] EXCEPT !.step = "store", !.token = newest + 1])
  /\ UNCHANGED <<expired, settings, alarm, form, cut, spent>>

(* Allegro refuses an old token; or the call fails, before or after the rotation *)
ExchangeFails(s) ==
  /\ work[s].step = "exchange"
  /\ \/ work[s].token # newest /\ UNCHANGED <<newest, cut, spent>>
     \/ Fault /\ UNCHANGED <<newest, cut>>
     \/ work[s].token = newest /\ newest' = newest + 1 /\ Fault /\ cut' = TRUE
  /\ IF work[s].offers THEN Delete(Worker(s)) ELSE UNCHANGED settings
  /\ Set(s, Idle) /\ Failed(s) /\ UNCHANGED <<expired, form>>

(* update_allegro_tokens *)
StoreAccessOnly(s) ==
  /\ work[s].step = "store"
  /\ LET p == [Pair(work[s].token) EXCEPT !.refresh = db.refresh] IN Write(Worker(s), p, p)
  /\ cut' = (work[s].token # newest) /\ Set(s, Idle)
  /\ IF s = Refresher THEN failures' = 0 /\ alerted' = FALSE ELSE UNCHANGED alarm
  /\ UNCHANGED <<allegro, form, spent>>
Store(s) ==
  /\ work[s].step = "store" /\ Write(Worker(s), Pair(work[s].token), Pair(work[s].token))
  /\ cut' = (work[s].token # newest) /\ Set(s, Idle)
  /\ IF s = Refresher THEN failures' = 0 /\ alerted' = FALSE ELSE UNCHANGED alarm
  /\ UNCHANGED <<allegro, form, spent>>
StoreFails(s) ==
  /\ work[s].step = "store" /\ Fault /\ Set(s, Idle) /\ Failed(s)
  /\ cut' = (cut \/ work[s].token = newest)
  /\ UNCHANGED <<allegro, settings, form>>

-----------------------------------------------------------------------------
(* The refresher's loop.                                                   *)

(* _seconds_until_refresh has nothing to go by *)
WakeBlindQuietly ==
  LET c == Fresh(Sched) IN
  /\ work[Refresher].step = "idle" /\ c.access = NoToken
  /\ Reads(Sched) /\ UNCHANGED <<allegro, alarm, work, form, cut, spent>>
WakeBlind ==
  LET c == Fresh(Sched) IN
  /\ work[Refresher].step = "idle" /\ c.access = NoToken
  /\ Reads(Sched) /\ Failed(Refresher)
  /\ UNCHANGED <<allegro, work, form, cut, spent>>
WakeDue ==
  LET c == Fresh(Sched) IN
  /\ work[Refresher].step = "idle" /\ c.access # NoToken /\ c.due <= expired
  /\ Reads(Sched) /\ Set(Refresher, [Idle EXCEPT !.step = "exchange", !.token = c.refresh])
  /\ UNCHANGED <<allegro, alarm, form, cut, spent>>
WakeEarly ==
  LET c == Fresh(Sched) IN
  /\ work[Refresher].step = "idle" /\ c.access # NoToken /\ c.due > expired
  /\ Reads(Sched) /\ failures' = 0 /\ alerted' = FALSE
  /\ UNCHANGED <<allegro, work, form, cut, spent>>

-----------------------------------------------------------------------------
(* Calls to Allegro.                                                       *)

(* the tokens are read once, at the beginning *)
BeginCall(w, offers) ==
  LET c == Fresh(w) IN
  /\ work[w].step = "idle" /\ c.access # NoToken
  /\ Reads(w)
  /\ Set(w, [step |-> "call", offers |-> offers, access |-> c.access, token |-> c.refresh])
  /\ UNCHANGED <<allegro, alarm, form, cut, spent>>
(* sync_offers without an access token, which does not invalidate when it fails *)
BeginWithout(w) ==
  LET c == Fresh(w) IN
  /\ work[w].step = "idle" /\ c.access = NoToken
  /\ Reads(w)
  /\ Set(w, [Idle EXCEPT !.step = "exchange", !.token = c.refresh])
  /\ UNCHANGED <<allegro, alarm, form, cut, spent>>

Answered(w) ==
  /\ work[w].step = "call" /\ work[w].access > expired /\ Set(w, Idle)
  /\ UNCHANGED <<allegro, settings, alarm, form, cut, spent>>
(* 401; shipment management exchanges after a 403 too, whatever the token's age *)
Unauthorized(w) ==
  /\ work[w].step = "call" /\ ~work[w].offers
  /\ IF work[w].access <= expired THEN UNCHANGED spent ELSE Fault
  /\ Set(w, [work[w] EXCEPT !.step = "exchange"])
  /\ UNCHANGED <<allegro, settings, alarm, form, cut>>
(* sync_offers reloads the settings and takes a token that others have stored *)
UnauthorizedOffers(w) ==
  /\ work[w].step = "call" /\ work[w].access <= expired /\ work[w].offers
  /\ cache' = [cache EXCEPT ![w] = db] /\ behind' = behind \ {w} /\ UNCHANGED db
  /\ Set(w, IF db.access \notin {NoToken, work[w].access}
            THEN [work[w] EXCEPT !.access = db.access, !.token = db.refresh]
            ELSE [work[w] EXCEPT !.step = "exchange"])
  /\ UNCHANGED <<allegro, alarm, form, cut, spent>>

-----------------------------------------------------------------------------
(* Other settings, the settings page, the admin, time and kills.           *)

(* the cursor of events, a snapshot, a price limit *)
WriteOther(w) ==
  /\ Spend("others", MaxOthers) /\ Write(w, db, cache[w])
  /\ UNCHANGED <<allegro, work, alarm, form, cut>>

(* a form opened while there is no access token is not modelled *)
OpenForm(w) ==
  LET c == Fresh(w) IN
  /\ ~form.open /\ c.access # NoToken /\ Spend("others", MaxOthers) /\ Reads(w)
  /\ form' = [open |-> TRUE, refresh |-> c.refresh, access |-> c.access]
  /\ UNCHANGED <<allegro, work, alarm, cut>>
(* what the form shows is written where the settings differ; the expiry is hidden *)
SaveForm(w) ==
  LET c == Fresh(w)
      shown == [c EXCEPT !.refresh = form.refresh, !.access = form.access]
      rows == [refresh |-> IF shown.refresh # c.refresh THEN shown.refresh ELSE db.refresh,
               access |-> IF shown.access # c.access THEN shown.access ELSE db.access,
               due |-> db.due]
  IN /\ form.open /\ form' = [form EXCEPT !.open = FALSE]
     /\ IF shown = c THEN Reads(w)
        ELSE Write(w, rows, shown)
     /\ cut' = (cut \/ shown.refresh # c.refresh)
     /\ UNCHANGED <<allegro, work, alarm, spent>>

Works == db.access > expired /\ db.refresh = newest

(* the admin follows the alert: the callback stores the pair it got *)
Authorize(w) ==
  /\ alerted /\ ~Works /\ Spend("logins", MaxOthers)
  /\ newest' = newest + 1 /\ Write(w, Pair(newest + 1), Pair(newest + 1)) /\ cut' = FALSE
  /\ UNCHANGED <<expired, work, alarm, form>>

Expire ==
  /\ expired < newest /\ expired' = newest /\ Spend("expiries", MaxExpiries)
  /\ UNCHANGED <<newest, settings, work, alarm, form, cut>>

Kill(w) ==
  LET its == {s \in Sessions : Worker(s) = w} IN
  /\ Fault /\ work' = [s \in Sessions |-> IF s \in its THEN Idle ELSE work[s]]
  /\ cache' = [cache EXCEPT ![w] = db] /\ behind' = behind \ {w} /\ UNCHANGED db
  /\ IF w = Sched THEN failures' = 0 /\ alerted' = FALSE ELSE UNCHANGED alarm
  /\ cut' = (cut \/ \E s \in its : work[s].step = "store" /\ work[s].token = newest)
  /\ UNCHANGED <<allegro, form>>

-----------------------------------------------------------------------------
Ends(s) == Exchange(s) \/ ExchangeFails(s) \/ Store(s) \/ StoreFails(s)
RefresherStep == WakeBlind \/ WakeDue \/ WakeEarly \/ Ends(Refresher)
CallStep(w) == Ends(w) \/ Answered(w) \/ Unauthorized(w) \/ UnauthorizedOffers(w)

Next ==
  \/ RefresherStep \/ Expire
  \/ \E w \in Callers :
       CallStep(w) \/ BeginCall(w, TRUE) \/ BeginCall(w, FALSE) \/ BeginWithout(w)
  \/ \E w \in Workers :
       \/ WriteOther(w) \/ OpenForm(w) \/ SaveForm(w) \/ Authorize(w) \/ Kill(w)

Spec == Init /\ [][Next]_vars

(* The refresh token that Allegro accepts is stored, or about to be, as long
   as no exchange was cut off between Allegro and the store, no form put an
   older token back and no exchange overtook an authorisation: whoever else
   was refreshing, from whatever copy. *)
RefreshTokenKept ==
  \/ db.refresh = newest \/ cut
  \/ \E s \in Sessions : work[s].step = "store" /\ work[s].token = newest

(* Again and again the stored pair works, or the admin has been alerted,
   or what the scheduler's worker goes by has not expired yet. *)
TokensWatched == []<>(Works \/ alerted \/ cache[Sched].due > expired)
=============================================================================
