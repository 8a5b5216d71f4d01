------------------------------- MODULE Settings -------------------------------
(***************************************************************************)
(* Settings that a person changes while the system runs: the page that     *)
(* saves them (src/ui/settings.ts), the overlay on the environment         *)
(* (src/settings.ts, src/db/repos/settings.ts), the processes that act on  *)
(* it, and the short cache of the reader's own preferences.                *)
(*                                                                         *)
(* Each statement of a save is a step, and so are the read and the store   *)
(* of the cache.  A value is coerced when it is posted and when it is      *)
(* read; here both are one function, on values of the current definition. *)
(***************************************************************************)
EXTENDS Integers, FiniteSets

CONSTANTS
  Key,
  Numeric,        \* keys of kind int or float
  Emptied,        \* of kind bool, multi or list: a blank is false or the empty list, here 0
  Value,          \* 0 and more
  Least, Most,    \* Least[k], Most[k]: def.min and def.max, which only numbers have
  Env,            \* Env[k]: what the environment says
  Admin,          \* pages of settings that are open
  Daemon,         \* processes that live on: the scheduler
  Blank,          \* an empty field
  MaxEdits        \* bound: saves and resets

None == -1        \* no row

ASSUME SettingsAssumption ==
  /\ Numeric \subseteq Key /\ Emptied \subseteq Key \ Numeric /\ Value \subseteq Nat /\ 0 \in Value /\ Blank \notin Value
  /\ {Least, Most, Env} \subseteq [Key -> Value]
  /\ \A k \in Key : Least[k] <= Env[k] /\ Env[k] <= Most[k]
  /\ \A k \in Key \ Numeric : Least[k] = 0 /\ \A v \in Value : v <= Most[k]
  /\ MaxEdits \in Nat

VARIABLES
  stored,         \* app_settings
  told,           \* told[k]: new_value of the last row of app_settings_history about k
  form,           \* form[a]: the fields as the page showed or the person left them
  posted,         \* posted[a]: keys of a save that are not dealt with
  seen,           \* seen[a]: the key between its SELECT and its INSERT, with its value
  active,         \* active[d]: the process-wide configuration
  cache,          \* prefsCache: the preferences, and whether it is within its time
  loading,        \* preferences that a page has read and not cached yet
  edits

settingsVars == <<stored, told, form, posted, seen, active, cache, loading, edits>>

NoSetting == [key |-> "none", value |-> None]
NoPrefs == [k \in Key |-> None]
Shown == [k \in Key |-> IF stored[k] = None THEN Env[k] ELSE stored[k]]

SettingsInit ==
  /\ stored = NoPrefs /\ told = NoPrefs
  /\ form = [a \in Admin |-> Env] /\ posted = [a \in Admin |-> {}]
  /\ seen = [a \in Admin |-> NoSetting]
  /\ active = [d \in Daemon |-> Env]
  /\ cache = [value |-> NoPrefs, fresh |-> FALSE] /\ loading = NoPrefs
  /\ edits = 0

------------------------------------------------------------------------------
(* The page.                                                               *)

Busy(a) == posted[a] # {} \/ seen[a] # NoSetting

Open(a) ==
  /\ ~Busy(a) /\ form' = [form EXCEPT ![a] = Shown]
  /\ UNCHANGED <<stored, told, posted, seen, active, cache, loading, edits>>

\* One field is edited, and all of the group are posted.
Save(a) ==
  /\ ~Busy(a) /\ edits < MaxEdits /\ edits' = edits + 1
  /\ \E k \in Key, v \in Value \cup {Blank} : form' = [form EXCEPT ![a][k] = v]
  /\ posted' = [posted EXCEPT ![a] = Key]
  /\ UNCHANGED <<stored, told, seen, active, cache, loading>>

\* What a field that is posted blank stands for: Number('') is 0, a switch is off and a
\* list is empty; a text that is empty is no value.
Plain(k, v) == IF v # Blank THEN v ELSE IF k \in Numeric \cup Emptied THEN 0 ELSE None

\* A mutant: no bounds.
CoerceAsGiven(k, v) == Plain(k, v)

\* coerce: a number is brought within its bounds.
Coerce(k, v) ==
  LET n == Plain(k, v)
  IN IF k \in Numeric /\ n < Least[k] THEN Least[k]
     ELSE IF k \in Numeric /\ n > Most[k] THEN Most[k] ELSE n

Fits(k, v) == Least[k] <= v /\ v <= Most[k]
Unset(k) == [stored EXCEPT ![k] = None]
Finished(a, k) == posted' = [posted EXCEPT ![a] = @ \ {k}]

\* The preferences are invalidated after the last key.
Invalidated(a) == IF posted'[a] = {} THEN [cache EXCEPT !.fresh = FALSE] ELSE cache

Delete(a) ==
  /\ seen[a] = NoSetting
  /\ \E k \in posted[a] :
       /\ Coerce(k, form[a][k]) \in {None, Env[k]}
       /\ stored' = Unset(k) /\ told' = [told EXCEPT ![k] = None] /\ Finished(a, k)
  /\ cache' = Invalidated(a)
  /\ UNCHANGED <<form, seen, active, loading, edits>>

\* Nothing more is done for a value that is there already.
Select(a) ==
  /\ seen[a] = NoSetting
  /\ \E k \in posted[a] :
       /\ Coerce(k, form[a][k]) \notin {None, Env[k]}
       /\ Finished(a, k)
       /\ IF stored[k] = Coerce(k, form[a][k])
            THEN cache' = Invalidated(a) /\ UNCHANGED seen
            ELSE /\ seen' = [seen EXCEPT ![a] = [key |-> k, value |-> Coerce(k, form[a][k])]]
                 /\ UNCHANGED cache
  /\ UNCHANGED <<stored, told, form, active, loading, edits>>

Upsert(a) ==
  /\ seen[a] # NoSetting
  /\ stored' = [stored EXCEPT ![seen[a].key] = seen[a].value]
  /\ told' = [told EXCEPT ![seen[a].key] = seen[a].value]
  /\ seen' = [seen EXCEPT ![a] = NoSetting]
  /\ cache' = IF posted[a] = {} THEN [cache EXCEPT !.fresh = FALSE] ELSE cache
  /\ UNCHANGED <<form, posted, active, loading, edits>>

Reset(a) ==
  /\ ~Busy(a) /\ edits < MaxEdits /\ edits' = edits + 1
  /\ \E k \in Key :
       /\ stored' = Unset(k)
       /\ told' = IF stored[k] = None THEN told ELSE [told EXCEPT ![k] = None]
  /\ cache' = [cache EXCEPT !.fresh = FALSE]
  /\ UNCHANGED <<form, posted, seen, active, loading>>

------------------------------------------------------------------------------
(* Who acts on them.                                                       *)

\* applyOverrides onto the configuration that is active.
Overlay(c) == [k \in Key |-> IF stored[k] = None THEN c[k] ELSE stored[k]]

\* A mutant: what was read at the start stays.
KeepWhatWasRead(d) ==
  /\ active' = IF active[d] = Env THEN [active EXCEPT ![d] = Overlay(active[d])] ELSE active
  /\ UNCHANGED <<stored, told, form, posted, seen, cache, loading, edits>>

\* applyStoredSettings, before each cycle of collect.
Cycle(d) ==
  /\ active' = [active EXCEPT ![d] = Overlay(active[d])]
  /\ UNCHANGED <<stored, told, form, posted, seen, cache, loading, edits>>

\* The process starts: the environment, and the overlay on it.
Restart(d) ==
  /\ active' = [active EXCEPT ![d] = Overlay(Env)]
  /\ UNCHANGED <<stored, told, form, posted, seen, cache, loading, edits>>

\* currentPrefs: the query, and the answer.
LoadPrefs ==
  /\ ~cache.fresh /\ loading = NoPrefs /\ loading' = Shown
  /\ UNCHANGED <<stored, told, form, posted, seen, active, cache, edits>>

CachePrefs ==
  /\ loading # NoPrefs
  /\ cache' = [value |-> loading, fresh |-> TRUE] /\ loading' = NoPrefs
  /\ UNCHANGED <<stored, told, form, posted, seen, active, edits>>

\* Ten seconds are over.
Expire ==
  /\ cache.fresh /\ cache' = [cache EXCEPT !.fresh = FALSE]
  /\ UNCHANGED <<stored, told, form, posted, seen, active, loading, edits>>

SavesOn(a) == Delete(a) \/ Select(a) \/ Upsert(a)
Reads == LoadPrefs \/ CachePrefs

SettingsNext ==
  \/ \E a \in Admin : Open(a) \/ Save(a) \/ Reset(a) \/ SavesOn(a)
  \/ \E d \in Daemon : Cycle(d) \/ Restart(d)
  \/ Reads \/ Expire

SettingsSpec == SettingsInit /\ [][SettingsNext]_settingsVars
SettingsFairSpec ==
  /\ SettingsSpec
  /\ \A a \in Admin : WF_settingsVars(SavesOn(a))
  /\ \A d \in Daemon : WF_settingsVars(Cycle(d))
  /\ WF_settingsVars(Reads) /\ WF_settingsVars(Expire)

------------------------------------------------------------------------------
(* Properties.                                                             *)

Setting == [Key -> Value \cup {None}]

\* "Only values that DIFFER from the environment are stored" (ui/settings.ts:8), and
\* only values of the definition, whatever two pages post at once.
SettingsTypeOK ==
  /\ stored \in Setting /\ told \in Setting
  /\ \A k \in Key : stored[k] # Env[k] /\ (stored[k] # None => Fits(k, stored[k]))
  /\ form \in [Admin -> [Key -> Value \cup {Blank}]] /\ posted \in [Admin -> SUBSET Key]
  /\ seen \in [Admin -> {NoSetting} \cup [key : Key, value : Value]]
  /\ active \in [Daemon -> [Key -> Value]]
  /\ cache \in [value : Setting, fresh : BOOLEAN] /\ loading \in Setting
  /\ edits \in 0 .. MaxEdits

\* 0019: no change of behaviour without a trace of it.
HistoryExplains == told = stored

\* "Changes take effect on the next cycle": what stays set is acted on in the end.
SetIsActedOn ==
  []<>(\A d \in Daemon, k \in Key : stored[k] # None => active[d][k] = stored[k])

\* The reader's preferences are never wrong for ever, though a page may cache what it
\* read before they were saved.
PrefsCatchUp == []<>(cache.value = Shown)

\* ui/settings.ts, "it removes the override, and the environment shows through again".
ClearedShowsEnvironment ==
  []<>(\A d \in Daemon, k \in Key : stored[k] = None => active[d][k] = Env[k])

\* "Clearing a field does not zero it": the number 0 is no blank field.
BlankIsNoValue == [][\A a \in Admin : Upsert(a) => form[a][seen[a].key] # Blank]_settingsVars

=============================================================================
