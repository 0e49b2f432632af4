--------------------------- MODULE PagePreferences ----------------------------
(***************************************************************************)
(* The preferences of the plot pages: timeseries.js 42-73 and 416-483,     *)
(* hovmoller.js 48-76 and 381-436.  Pages of one origin share one          *)
(* localStorage, and these pages share the keys of the three buttons that  *)
(* choose a resolution.  A button's state is stored as a string.           *)
(*                                                                         *)
(* The other preferences are copied, each by itself, and are left out.     *)
(***************************************************************************)
CONSTANT Null   \* localStorage has no such key

Resolutions == {1, 5, 15}

ASSUME NullAssumption == Null \notin {"true", "false"}

VARIABLES
  checked,        \* of each button, whether it is checked
  localStorage    \* what is stored under each button's key

preferenceVars == <<checked, localStorage>>

PreferencesTypeOK ==
  /\ checked \in [Resolutions -> BOOLEAN]
  /\ localStorage \in [Resolutions -> {"true", "false", Null}]

\* Checking one button of the group unchecks the others.
Check(r) == [s \in Resolutions |-> s = r]

\* Mutant: a key that is missing unchecks its button.
SetOrClear(shown, stored, r) ==
  IF stored[r] = "true" THEN Check(r) ELSE [shown EXCEPT ![r] = FALSE]

Set(shown, stored, r) ==
  CASE stored[r] = "true" -> Check(r)
    [] stored[r] = "false" -> [shown EXCEPT ![r] = FALSE]
    [] OTHER -> shown

\* The document checks the first button, then the stored values are set in turn.
setPreferences(stored) ==
  Set(Set(Set(Check(1), stored, 1), stored, 5), stored, 15)

getPreferences(shown) == [r \in Resolutions |-> IF shown[r] THEN "true" ELSE "false"]

NoKeys == [r \in Resolutions |-> Null]

\* The user checks a button.
Choose ==
  /\ \E r \in Resolutions : checked' = Check(r)
  /\ UNCHANGED localStorage

\* Button "Save Preferences".
savePreferences ==
  /\ localStorage' = getPreferences(checked)
  /\ UNCHANGED checked

\* The same button of the other page, open in another tab.
OtherPageSaves ==
  /\ \E r \in Resolutions : localStorage' = getPreferences(Check(r))
  /\ UNCHANGED checked

\* Button "Clear Preferences", of either page.
clearPreferences ==
  /\ localStorage' = NoKeys
  /\ UNCHANGED checked

Preferences == Choose \/ savePreferences \/ OtherPageSaves \/ clearPreferences

\* Whatever was saved and cleared, by whichever page, and whenever the page is
\* loaded again, one button is checked: with none, reading the resolution
\* raises (timeseries.js 230) and the page is dead.
OneResolution == \E r \in Resolutions : checked = Check(r)

==============================================================================
