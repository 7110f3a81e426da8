------------------------------ MODULE Preferences ------------------------------
(* What the operator set up for a workspace: settings.json and its lock           *)
(* (settings.py, ruleswitch.py), the YARA rule files and the list of those that   *)
(* are switched off (yarascan.py), and the reputation lookups the keys are for    *)
(* (enrich.py).  Requests run in threads; a scan reads the lists once.            *)
EXTENDS Naturals

CONSTANTS
    Requests,  \* threads of the server that handle a request or a scan
    Hosts,     \* OpenCTI hosts
    Files,     \* names of YARA rule files
    MaxAsked, MaxRestarts

VARIABLES
    stored,        \* settings.json, or Broken
    settingslock,  \* who holds _LOCK
    request,       \* [Requests -> what each is at]
    rules,         \* [Files -> NoRule, Compiles or Fails]
    report,        \* the stored report of a value in a case: its age, or NoReport
    answered,      \* the settings as the answered saves left them (history)
    asked, restarts

pvars == <<stored, settingslock, request, rules, report, answered, asked, restarts>>

Flags == {"ack", "key", "php", "muted"}
NoHost == "no_host"
\* A token is known by the host it was entered for.
NoToken == "no_token"
Defaults == [flag |-> [f \in Flags |-> FALSE], yara |-> {}, host |-> NoHost, token |-> NoToken]
Broken == [Defaults EXCEPT !.host = "not_json"]
NoRule == "missing"
Compiles == "compiles"
Fails == "fails"
NoReport == 0
Unheld == "free"

\* A request is none that holds nothing, and a host is none that a broken file stands for.
ASSUME PreferenceConstants == Unheld \notin Requests /\ Broken.host \notin Hosts

NoChange == [kind |-> "none", name |-> "none", on |-> FALSE, off |-> {}]
NoRequest == [pc |-> "idle", change |-> NoChange, copy |-> Defaults]

PInit ==
    /\ stored = Defaults /\ answered = Defaults
    /\ settingslock = Unheld /\ request = [r \in Requests |-> NoRequest]
    /\ rules \in [Files -> {NoRule, Compiles}]
    /\ report = NoReport /\ asked = 0 /\ restarts = 0

\* A file that is no JSON counts as the defaults.
Loaded == IF stored = Broken THEN Defaults ELSE stored

RequestAt(r, pc) == request[r].pc = pc
RequestTo(r, pc) == request' = [request EXCEPT ![r].pc = pc]
Ends(r) == request' = [request EXCEPT ![r] = NoRequest]
Asks(r, pc, c) ==
    /\ RequestAt(r, "idle") /\ asked < MaxAsked /\ asked' = asked + 1
    /\ request' = [request EXCEPT ![r] = [pc |-> pc, change |-> c, copy |-> Defaults]]

----------------------------------------------------------------------------
(* Saving a setting: load, change and save under the lock                  *)

\* A key, the acceptance, indirect PHP, a muted rule.
SetFlag(r, f, on) ==
    /\ Asks(r, "save", [NoChange EXCEPT !.kind = "flag", !.name = f, !.on = on])
    /\ UNCHANGED <<stored, settingslock, rules, report, answered, restarts>>

\* The connection form: its host, and a token when one is entered.
SetOpencti(r, host, entered) ==
    /\ Asks(r, "save", [NoChange EXCEPT !.kind = "opencti", !.name = host, !.on = entered])
    /\ UNCHANGED <<stored, settingslock, rules, report, answered, restarts>>

\* A token stays only with the host it was entered for.
Token(s, c) == IF c.on THEN c.name ELSE IF c.name = s.host THEN s.token ELSE NoToken

Changed(s, c) ==
    IF c.kind = "flag" THEN [s EXCEPT !.flag[c.name] = c.on]
    ELSE IF c.kind = "yara" THEN [s EXCEPT !.yara = c.off]
    ELSE [s EXCEPT !.host = c.name, !.token = Token(s, c)]

\* Mutant: the settings are loaded before the lock is taken.
Anytime(r) == TRUE
Locked(r) == settingslock = Unheld

Load(r) ==
    /\ RequestAt(r, "save") /\ Locked(r)
    /\ settingslock' = r
    /\ request' = [request EXCEPT ![r].pc = "loaded", ![r].copy = Loaded]
    /\ UNCHANGED <<stored, rules, report, answered, asked, restarts>>

\* The file is replaced as a whole.
SaveSettings(r) ==
    /\ RequestAt(r, "loaded")
    /\ stored' = Changed(request[r].copy, request[r].change)
    /\ answered' = Changed(answered, request[r].change)
    /\ settingslock' = Unheld /\ Ends(r)
    /\ UNCHANGED <<rules, report, asked, restarts>>

\* An address, an id or a token that is no good, or a disk that is full.
RefuseSave(r) ==
    /\ RequestAt(r, "loaded")
    /\ settingslock' = Unheld /\ Ends(r)
    /\ UNCHANGED <<stored, rules, report, answered, asked, restarts>>

\* Someone leaves a file that is no JSON.
EditByHand ==
    /\ stored # Broken /\ asked < MaxAsked /\ asked' = asked + 1 /\ settingslock = Unheld
    /\ stored' = Broken /\ answered' = Defaults
    /\ UNCHANGED <<settingslock, request, rules, report, restarts>>

----------------------------------------------------------------------------
(* YARA rule files                                                         *)

\* What does not compile is refused, so a file of the editor does.
WriteRule(r, n) ==
    /\ RequestAt(r, "idle") /\ rules[n] # Compiles /\ asked < MaxAsked /\ asked' = asked + 1
    /\ rules' = [rules EXCEPT ![n] = Compiles]
    /\ UNCHANGED <<stored, settingslock, request, report, answered, restarts>>

\* A file of a feed is dropped in, whatever it holds.
DropIn(n) ==
    /\ rules[n] = NoRule /\ asked < MaxAsked /\ asked' = asked + 1
    /\ rules' = [rules EXCEPT ![n] = Fails]
    /\ UNCHANGED <<stored, settingslock, request, report, answered, restarts>>

\* The file first, then its place on the list.
DeleteRule(r, n) ==
    /\ rules[n] # NoRule
    /\ Asks(r, "list", [NoChange EXCEPT !.kind = "yara", !.name = n, !.on = TRUE])
    /\ rules' = [rules EXCEPT ![n] = NoRule]
    /\ UNCHANGED <<stored, settingslock, report, answered, restarts>>

SetRuleEnabled(r, n, on) ==
    /\ rules[n] # NoRule
    /\ Asks(r, "list", [NoChange EXCEPT !.kind = "yara", !.name = n, !.on = on])
    /\ UNCHANGED <<stored, settingslock, rules, report, answered, restarts>>

\* The list is read here and put back as a whole, without the lock in between.
ReadList(r) ==
    /\ RequestAt(r, "list")
    /\ LET c == request[r].change
           off == IF c.on THEN Loaded.yara \ {c.name} ELSE Loaded.yara \cup {c.name} IN
       request' = [request EXCEPT ![r].pc = "save", ![r].change.off = off]
    /\ UNCHANGED <<stored, settingslock, rules, report, answered, asked, restarts>>

\* A scan takes the files that are not switched off and compile on their own.
StartScan(r) ==
    /\ Asks(r, "compile", [NoChange EXCEPT !.off = {n \in Files : rules[n] # NoRule} \ Loaded.yara])
    /\ UNCHANGED <<stored, settingslock, rules, report, answered, restarts>>

Compile(r) ==
    /\ RequestAt(r, "compile")
    /\ request' = [request EXCEPT ![r].pc = "scan", ![r].change.off = {n \in @ : rules[n] = Compiles}]
    /\ UNCHANGED <<stored, settingslock, rules, report, answered, asked, restarts>>

Scanned(r) ==
    /\ RequestAt(r, "scan") /\ Ends(r)
    /\ UNCHANGED <<stored, settingslock, rules, report, answered, asked, restarts>>

----------------------------------------------------------------------------
(* A reputation lookup                                                     *)

\* The key, then the stored report; a refresh asks again.
LookupValue(r, refresh) ==
    /\ Loaded.flag["key"]
    /\ report = NoReport \/ refresh
    /\ Asks(r, "ask", NoChange)
    /\ UNCHANGED <<stored, settingslock, rules, report, answered, restarts>>

\* One value goes to the service; only the key is looked at.
Ask(r) ==
    /\ RequestAt(r, "ask")
    /\ RequestTo(r, "answer")
    /\ UNCHANGED <<stored, settingslock, rules, report, answered, asked, restarts>>

\* A provider that fails leaves the stored report.
Answer(r) ==
    /\ RequestAt(r, "answer")
    /\ Ends(r)
    /\ report' \in {report, report + 1}
    /\ UNCHANGED <<stored, settingslock, rules, answered, asked, restarts>>

\* What a request had only loaded goes with the process.
PCrash ==
    /\ \E r \in Requests : ~RequestAt(r, "idle")
    /\ restarts < MaxRestarts /\ restarts' = restarts + 1
    /\ request' = [r \in Requests |-> NoRequest] /\ settingslock' = Unheld
    /\ UNCHANGED <<stored, rules, report, answered, asked>>

PNext ==
    \/ \E r \in Requests :
          \/ \E f \in Flags, on \in BOOLEAN : SetFlag(r, f, on)
          \/ \E host \in Hosts \cup {NoHost}, entered \in BOOLEAN : SetOpencti(r, host, entered)
          \/ Load(r) \/ SaveSettings(r) \/ RefuseSave(r)
          \/ \E n \in Files : WriteRule(r, n) \/ DeleteRule(r, n)
          \/ \E n \in Files, on \in BOOLEAN : SetRuleEnabled(r, n, on)
          \/ ReadList(r) \/ StartScan(r) \/ Compile(r) \/ Scanned(r)
          \/ \E refresh \in BOOLEAN : LookupValue(r, refresh)
          \/ Ask(r) \/ Answer(r)
    \/ \E n \in Files : DropIn(n)
    \/ EditByHand \/ PCrash

PSpec == PInit /\ [][PNext]_pvars

----------------------------------------------------------------------------
(* Properties                                                              *)

\* A save that was answered stands until a later one of the same setting, whatever
\* else is saved at the same time: no request puts back what another has changed,
\* and a stored token belongs to the host it is sent to. (The list of YARA files is
\* as the last whole list that was put.)
SettingsAreKept ==
    /\ Loaded = answered
    /\ Loaded.token \in {NoToken, Loaded.host}
=============================================================================
