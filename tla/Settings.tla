------------------------------- MODULE Settings -------------------------------
(***************************************************************************)
(* The settings (internal/settings/settings.go): what the panel may write, *)
(* how it is stored, and what a start makes of the rows it finds.          *)
(*                                                                         *)
(* A number is in the unit of its row, which is the unit of the panel.  A  *)
(* row is a value, or a text that does not parse (ok is FALSE).            *)
(***************************************************************************)
EXTENDS RuleInput, Integers

CONSTANT Loadable   \* the time zones that this build can load
ASSUME LoadableAssumption == "" \notin Loadable

Switches == {"global_enabled", "global_probe_enabled", "global_reverse_bind_enabled",
             "state_priority_enabled", "timezone_conversion_enabled"}

\* NoMost where there is no upper bound.
NoMost == 2147483647
Bounds == [scan_interval_sec |-> <<5, NoMost>>, probe_concurrency |-> <<1, 32>>,
           state_ttl_min |-> <<1, NoMost>>, refresh_threshold_pct |-> <<0, 90>>,
           target_state_length |-> <<1, 8192>>, max_probe_duration_sec |-> <<5, NoMost>>,
           probe_history_retention_hours |-> <<1, 365 * 24>>,
           max_proxies_per_probe |-> <<1, 100>>, non_target_backoff_cap_min |-> <<5, 24 * 60>>,
           call_history_retention_hours |-> <<1, 24>>, max_unusable_per_probe |-> <<0, 100>>]

Durations == {"scan_interval_sec", "state_ttl_min", "max_probe_duration_sec",
              "account_sync_interval_sec", "probe_history_retention_hours",
              "non_target_backoff_cap_min", "call_history_retention_hours"}
Numbers == DOMAIN Bounds \cup {"account_sync_interval_sec"}
Keys == Switches \cup Numbers \cup {"account_routing_strategy", "timezone_target"}

Strategies == {"respect_cpa_priority", "state_first"}

\* On is every switch but one.
NumberDefaults ==
    [scan_interval_sec |-> 60, probe_concurrency |-> 2, state_ttl_min |-> 60,
     refresh_threshold_pct |-> 15, target_state_length |-> 292, max_probe_duration_sec |-> 90,
     account_sync_interval_sec |-> 300, probe_history_retention_hours |-> 24,
     max_proxies_per_probe |-> 10, non_target_backoff_cap_min |-> 30,
     call_history_retention_hours |-> 24, max_unusable_per_probe |-> 0]

Defaults ==
    [k \in Keys |->
        IF k \in Switches THEN k # "timezone_conversion_enabled"
        ELSE IF k = "account_routing_strategy" THEN "respect_cpa_priority"
        ELSE IF k = "timezone_target" THEN ""
        ELSE NumberDefaults[k]]

\* Validate.  It knows nothing of the account sync interval and the time zone.
Valid(v) ==
    /\ \A k \in DOMAIN Bounds : Bounds[k][1] <= v[k] /\ v[k] <= Bounds[k][2]
    /\ v.account_routing_strategy \in Strategies

\* What a patch, which names some of the keys, makes of the settings: the panel
\* may leave the strategy empty.  It is refused as a whole or stored and live.
Patched(v, patch) ==
    LET next == [k \in DOMAIN v |-> IF k \in DOMAIN patch THEN patch[k] ELSE v[k]]
    IN  IF next.account_routing_strategy = ""
        THEN [next EXCEPT !.account_routing_strategy = "respect_cpa_priority"] ELSE next

\* Mutant of Accepted: what it makes of the settings is not validated.
AcceptedUnchecked(v, patch) == Patched(v, patch).timezone_target \in Loadable \cup {""}

Accepted(v, patch) ==
    LET next == Patched(v, patch)
    IN  next.timezone_target \in Loadable \cup {""} /\ Valid(next)

Encode(v) == [k \in Keys |-> [ok |-> TRUE, value |-> v[k]]]

Readable(k, row) ==
    /\ row.ok
    /\ k \in Durations => row.value > 0
    /\ k = "account_routing_strategy" => row.value \in Strategies

\* Mutant of Decode: a zone that cannot be loaded costs all the settings.
DecodeStrict(rows) ==
    LET v == [k \in Keys |-> IF k \in DOMAIN rows /\ Readable(k, rows[k])
                             THEN rows[k].value ELSE Defaults[k]]
    IN  IF Valid(v) /\ v.timezone_target \in Loadable \cup {""} THEN v ELSE Defaults

\* What cannot be read falls back to its default; if what that leaves is not
\* valid, everything does.
Decode(rows) ==
    LET v == [k \in Keys |-> IF k \in DOMAIN rows /\ Readable(k, rows[k])
                             THEN rows[k].value ELSE Defaults[k]]
    IN  IF Valid(v) THEN v ELSE Defaults

\* The master switch gates them all; injection has no switch of its own.
Capabilities(v) ==
    IF ~v.global_enabled THEN {}
    ELSE {"inject"} \cup (IF v.global_probe_enabled THEN {"probe"} ELSE {})
                    \cup (IF v.global_reverse_bind_enabled THEN {"capture"} ELSE {})
                    \cup (IF v.state_priority_enabled THEN {"route"} ELSE {})

-----------------------------------------------------------------------------
(* Properties *)

\* settings.go:210: whatever rows a start finds, it runs on settings that are
\* within the bounds; and of rows that were stored, those that it cannot read any
\* more, or that name a zone this build cannot load, cost no other.
StartsOnAnything(v, rows) ==
    LET stored == {k \in DOMAIN rows : rows[k] = [ok |-> TRUE, value |-> v[k]]}
    IN  /\ Valid(Decode(rows))
        /\ Valid(v) /\ (\A k \in DOMAIN rows \ stored : ~rows[k].ok)
               => \A k \in stored : Readable(k, rows[k]) => Decode(rows)[k] = v[k]

\* settings.go:166: what a patch stored is what the next start finds.
SurvivesRestart(v, patch) ==
    Accepted(v, patch) => Decode(Encode(Patched(v, patch))) = Patched(v, patch)

\* So it is, but for an account sync interval that is not positive.
SurvivesRestartMostly(v, patch) ==
    Patched(v, patch).account_sync_interval_sec > 0 => SurvivesRestart(v, patch)
\* What is asked of settings: all of them are there, numbers are numbers, and
\* only what is a setting has a row.
Typed(f) == \A k \in DOMAIN f \cap Numbers : f[k] \in Int
SettingsInput(v, patch, rows) ==
    DOMAIN v = Keys /\ Typed(v) /\ Typed(patch) /\ DOMAIN rows \subseteq Keys

\* The plugin starts on any rows (settings.go:210).
AnyRowsWillDo == input.rule = "settings" => StartsOnAnything(input.v, input.rows)

\* A restart finds what the panel has stored, but for the sync interval
\* (settings.go:166).
EditsMostlySurvive ==
    input.rule = "settings" /\ Valid(input.v) => SurvivesRestartMostly(input.v, input.patch)

\* A restart finds what the panel has stored (settings.go:166).
EditsSurvive == input.rule = "settings" /\ Valid(input.v) => SurvivesRestart(input.v, input.patch)
=============================================================================
