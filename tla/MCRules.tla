------------------------------- MODULE MCRules -------------------------------
(***************************************************************************)
(* The rules of the plugin that are functions of their input, each on the  *)
(* inputs of a small set: the waits, the schedule, the shape of a state,   *)
(* the verdict on an account, the settings and the time zone.              *)
(***************************************************************************)
EXTENDS Backoff, TimeWindow, Envelope, Verdict, Settings, Timezone, TLC

None == [rule |-> "none"]

\* Runs around the threshold and far beyond the cap; the edges of the settings.
Runs == {before \o [i \in 1..k |-> "SUCCESS_NON_TARGET"] :
            before \in {<<>>, <<"SUCCESS_NON_TARGET", "SUCCESS_STALE">>,
                       <<"SUCCESS_NON_TARGET", "NETWORK_ERROR">>},
            k \in {0, 3, 4, 5, 6, 12}}
RetryHeaders == {[form |-> "junk", n |-> 30]}
                  \cup [form : {"seconds", "date"}, n : {0, 30, 100, 130}]
Waits == {[ttl |-> ttl, pct |-> pct, cap |-> cap, jitter |-> j,
           streak |-> Streak(run), retryAfter |-> RetryAfter(raw, 100), run |-> run] :
            ttl \in {60, 600, 3600}, pct \in {0, 15, 90}, cap \in {0, 300, 1800}, j \in {0, 100, 179},
            run \in Runs, raw \in RetryHeaders}
Ages == {0, 9, 54, 60, 540, 541, 3599}

\* Windows at the edges of a day, and the minutes on both sides of these.
Clocks == {Plain(t) : t \in {0, 360, 1320, LastMinute}} \cup {[at |-> 1320, odd |-> TRUE]}
SomeWindows == [days : {{}, {1}, {0, 1}, {6}}, start : Clocks, end : Clocks, enabled : BOOLEAN]
Noon == [days |-> {2}, start |-> Plain(700), end |-> Plain(720), enabled |-> TRUE]
Minutes == {0, 1, 359, 360, 361, 390, 720, 1319, 1320, 1321, LastMinute}

\* Values of up to thirteen blocks, one byte short and one too many.
States == [bytes : {Overhead + BlockSize * b + e : b \in {0, 1, 9, 10, 11, 12, 13, 32}, e \in -1..1},
           padding : 0..3, issued : {FirstIssue - 1, FirstIssue}, sound : BOOLEAN]
Lengths == {292, 300, 332} \cup {EncodedLength(b) : b \in {1, 32, 33}}

\* Two budgets, and times in every order.
Times == 1790..1793
Budgets == {[used |-> Absent, reset |-> 1793], [used |-> 994, reset |-> 1793]}
             \cup [used : {995, 1000}, reset : {Absent, 1791, 1792 * 1000, 1793}]
Headers == [plan : {"", "team"}, credits : {FALSE}, primary : Budgets, secondary : Budgets]
Spent == [NoSignals EXCEPT !.primary = [used |-> 100, reset |-> 1792]]
HostAccounts == [disabled : {FALSE}, status : {"active", "error"}, unavailable : BOOLEAN,
                 message : SUBSET {"1403", "quota"}, retry : {Never, 1791, 1793},
                 plan : {"plus"}, quota : {NoSignals, Spent}]
UnfitAccounts == [disabled : BOOLEAN, status : {"active", "disabled", "pending"}, unavailable : {FALSE},
                  message : SUBSET {"401", "quota"}, retry : {1791}, plan : {""}, quota : {Spent}]

\* Settings that differ from the defaults in one place, and edits of one more.
MCLoadable == {"Asia/Shanghai"}
Edges(k) ==
    CASE k \in Switches -> BOOLEAN
      [] k = "account_sync_interval_sec" -> {-1, 0, 1}
      [] k = "account_routing_strategy" -> Strategies \cup {"", "random"}
      [] k = "timezone_target" -> {"", "Asia/Shanghai", "Mars/Olympus"}
      [] OTHER -> {Bounds[k][1] - 1, Bounds[k][1], Lesser(Bounds[k][2], 100000),
                   Lesser(Bounds[k][2], 100000) + 1}
Patches == UNION {{k :> x : x \in Edges(k)} : k \in Keys}
Rows(v, k, how) ==
    CASE how = "gone" -> [j \in Keys \ {k} |-> Encode(v)[j]]
      [] how = "junk" -> [Encode(v) EXCEPT ![k] = [ok |-> FALSE, value |-> @.value]]

\* Bodies of three pieces.
MCDialects == <<"raw", "escaped">>
MCZoneLike == {"Asia/Shanghai", "Europe/Paris"}
Element(d, name, x) == <<Open(d, name), Text(x), Close(d, name)>>
Pieces == {<<>>, <<Open("raw", "environment_context")>>, <<Close("raw", "environment_context")>>,
           <<Open("escaped", "environment_context")>> \o Element("escaped", "timezone", "Europe/Paris")
               \o <<Close("escaped", "environment_context")>>,
           Element("raw", "timezone", "Europe/Paris"),
           Element("raw", "timezone", "Europe/Paris") \o Element("raw", "current_date", "yesterday"),
           Element("escaped", "timezone", "Asia/Shanghai"), <<Open("raw", "timezone")>>,
           <<Key("timezone"), <<"string", "Europe/Paris">>>>, <<Key("timezone"), <<"string", "this evening">>>>,
           <<Key("timezone_offset_min"), <<"number", "60">>>>, <<Key("timezone"), <<"number", "60">>>>,
           <<Open("raw", "current_date")>> \o Element("raw", "timezone", "Europe/Paris")
               \o <<Close("raw", "current_date")>>}

-----------------------------------------------------------------------------
\* These are among the inputs that the proofs are about.
ASSUME BackoffInputsAreTyped ==
    Waits \subseteq Waiting /\ (\A b \in Waits : b.streak = Streak(b.run)) /\ Ages \subseteq Nat
ASSUME WindowInputsAreTyped == SomeWindows \cup {Noon} \subseteq Window /\ Minutes \subseteq 0..LastMinute
ASSUME EnvelopeInputsAreTyped == States \subseteq StoredValue /\ Lengths \subseteq Nat
ASSUME VerdictInputsAreTyped ==
    HostAccounts \cup UnfitAccounts \subseteq HostAccount /\ Headers \subseteq Signals
ASSUME SettingsInputsAreTyped ==
    \A p, q \in Patches, how \in {"gone", "junk"} : \A k \in DOMAIN q :
        SettingsInput(p @@ Defaults, q, Rows(p @@ Defaults, k, how))
ASSUME TimezoneInputsAreTyped == Pieces \subseteq Seq(Token)

-----------------------------------------------------------------------------

Init == input = None

Choose ==
    /\ input = None
    /\ \/ \E b \in Waits, age \in Ages :
            input' = [rule |-> "backoff", b |-> b, age |-> age]
       \/ \E w \in SomeWindows, more \in {{}, {Noon}}, day \in {0, 1, 2}, t \in Minutes :
            input' = [rule |-> "window", windows |-> {w} \cup more, day |-> day, at |-> t]
       \/ \E v \in States, plan \in {"", "plus", "team"}, length \in Lengths :
            input' = [rule |-> "envelope", value |-> v, plan |-> plan, length |-> length]
       \/ \E a \in HostAccounts \cup UnfitAccounts, h \in Headers, now \in Times :
            input' = [rule |-> "verdict", account |-> a, header |-> h, now |-> now]
       \/ \E p, q \in Patches, how \in {"gone", "junk"} : \E k \in DOMAIN q :
            input' = [rule |-> "settings", v |-> p @@ Defaults, patch |-> q,
                      rows |-> Rows(p @@ Defaults, k, how)]
       \/ \E p, q, r \in Pieces :
            input' = [rule |-> "timezone", body |-> p \o q \o r]

Return == input # None /\ input' = None

Next == Choose \/ Return

Spec == Init /\ [][Next]_input
=============================================================================
