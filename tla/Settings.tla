------------------------------ MODULE Settings ------------------------------
(* The configuration: one TOML file that every request reads anew and that    *)
(* two PUT handlers rewrite, and the secrets in the keyring beside it. What   *)
(* the status badge, the connection test and the schedule each take for a     *)
(* configured connector, and which token a model's client is given.           *)
(* A behaviour is about one connector or model provider, the site. An entry   *)
(* of the file is "on" (set), "alt" (set to the other choice), "off" (false,  *)
(* empty) or "none".                                                          *)
EXTENDS Naturals

CONSTANT MaxClicks     \* how often each request is sent

VARIABLES site,      \* the connector or provider
          world,     \* what lies outside: environment variables, files on disk
          form,      \* of config.toml: none, blank, whole, torn
          stored,    \* its entries
          vault,     \* the keyring's slots of the site
          put,       \* of each writer: what it read and asks for
          agreed,    \* history: what the answered requests add up to
          blurred,   \* history: two writers overlapped, or one was killed writing
          serving,   \* off, up, failed
          clicks

settingsVars == <<site, world, form, stored, vault, put, agreed, blurred, serving, clicks>>

Scheduled == {"gitlab", "splunk", "tenable", "servicenow_grc", "sharepoint"}
Connectors == Scheduled \cup {"emass", "archer", "confluence", "jira"}
Models == {"anthropic", "openai"}
Sites == Connectors \cup Models

Writers == {"settings", "links"}

-----------------------------------------------------------------------------
(* AppConfig *)

ModelFields == {"url", "model", "judge", "escalation"}

\* The switches that somebody reads; enable_archer, say, is only shown.
Switches ==
    [s \in Connectors |->
        IF s \in {"emass", "confluence"} THEN {"v04", "gate"}
        ELSE IF s = "archer" THEN {}
        ELSE IF s = "jira" THEN {"enable", "gate"}
        ELSE IF s = "sharepoint" THEN {"enable", "sweep"} ELSE {"enable"}]

SourceFields ==
    [emass |-> {"url", "system", "cert", "key"}, sharepoint |-> {"url"},
     tenable |-> {"flavor", "host"}, servicenow_grc |-> {"url", "user", "auth"},
     archer |-> {"url", "name", "user"}, splunk |-> {"host", "searches"},
     gitlab |-> {"url", "projects"}]

WikiFields == [confluence |-> {"url", "spaces"}, jira |-> {"url", "queries"}]

Fields ==
    [s \in Sites |->
        IF s \in Models THEN ModelFields
        ELSE Switches[s] \cup (IF s \in DOMAIN WikiFields THEN WikiFields[s] ELSE SourceFields[s])]

Entries == [s \in Sites |-> Fields[s] \cup {"links"}]

\* The optional strings: None unless set.
Texts == {"url", "system", "cert", "key", "flavor", "host", "user", "auth", "name", "spaces"}

Default(e) ==
    IF e \in Texts THEN "none"
    ELSE IF e \in {"v04", "gate", "model", "judge", "escalation"} THEN "on" ELSE "off"

Defaults(s) == [e \in Entries[s] |-> Default(e)]

Empty == [e \in {} |-> "none"]

(* save_config drops what is None; a dropped entry is read as its default.  *)
FileOf(c) == [e \in {x \in DOMAIN c : c[x] # "none"} |-> c[e]]
Validated(s, f) == [e \in Entries[s] |-> IF e \in DOMAIN f THEN f[e] ELSE Default(e)]

Loaded == Validated(site, stored)

-----------------------------------------------------------------------------
(* The requests that write *)

\* A name or an address can be that of another instance, two strings are choices.
OtherValues ==
    [s \in Sites |->
        IF s = "tenable" THEN {<<"flavor", "alt">>, <<"flavor", "bad">>}
        ELSE IF s = "servicenow_grc" THEN {<<"auth", "alt">>, <<"auth", "bad">>}
        ELSE IF s = "archer" THEN {<<"name", "alt">>}
        ELSE IF s = "gitlab" THEN {<<"url", "alt">>} ELSE {}]

(* A card of the Settings page sends all its fields, the list of links sends *)
(* itself.                                                                   *)
Bodies(w) ==
    LET fields == IF w = "links" THEN {"links"} ELSE Fields[site]
        plain == {[e \in fields |-> IF e \in on THEN "on" ELSE "clear"] : on \in SUBSET fields}
    IN  plain \cup (IF w = "links" THEN {}
                   ELSE {[b EXCEPT ![c[1]] = c[2]] : b \in plain, c \in OtherValues[site]})

(* Mutant: a cleared escalation model is None. *)
ClearedToNone(e, old) ==
    IF e \in Texts \cup {"escalation"} THEN "none" ELSE IF e = "judge" THEN old ELSE "off"

\* A blank name of the judge's model keeps the old one.
Cleared(e, old) ==
    IF e \in Texts THEN "none" ELSE IF e = "judge" THEN old ELSE "off"

Coerced(c, asked) ==
    [e \in DOMAIN c |->
        IF e \notin DOMAIN asked THEN c[e]
        ELSE IF asked[e] = "clear" THEN Cleared(e, c[e]) ELSE asked[e]]

AtRest == [at |-> "idle", asked |-> Empty, next |-> Empty]

(* The handler loads the file and works on its copy. It answers an error if *)
(* the file is unreadable or a value is not allowed.                        *)
Receive(w, asked) ==
    /\ serving = "up"
    /\ put[w].at = "idle"
    /\ clicks[w] < MaxClicks
    /\ clicks' = [clicks EXCEPT ![w] = @ + 1]
    /\ IF form = "torn" \/ \E e \in DOMAIN asked : asked[e] = "bad"
       THEN UNCHANGED <<put, blurred>>
       ELSE /\ put' = [put EXCEPT ![w] = [at |-> "loaded", asked |-> asked,
                                          next |-> Coerced(Loaded, asked)]]
            /\ blurred' = (blurred \/ \E o \in Writers : put[o].at # "idle")
    /\ UNCHANGED <<site, world, form, stored, vault, agreed, serving>>

(* open("wb") *)
Truncate(w) ==
    /\ put[w].at = "loaded"
    /\ put' = [put EXCEPT ![w].at = "truncated"]
    /\ form' = "blank"
    /\ stored' = Empty
    /\ UNCHANGED <<site, world, vault, agreed, blurred, serving, clicks>>

(* The buffer is written when the file is closed. Over what another writer  *)
(* has written in the meantime it may leave the end of a longer text.       *)
Close(w) ==
    /\ put[w].at = "truncated"
    /\ form' \in (IF form = "blank" THEN {"whole"} ELSE {"whole", "torn"})
    /\ stored' = IF form' = "whole" THEN FileOf(put[w].next) ELSE Empty
    /\ agreed' = [e \in DOMAIN agreed |->
                    IF e \in DOMAIN put[w].asked THEN put[w].next[e] ELSE agreed[e]]
    /\ put' = [put EXCEPT ![w] = AtRest]
    /\ UNCHANGED <<site, world, vault, blurred, serving, clicks>>

-----------------------------------------------------------------------------
(* The keyring *)

SlotsOf(s) ==
    IF s \in {"tenable", "anthropic", "openai"} THEN {"own", "second"}
    ELSE IF s \in {"archer", "gitlab", "servicenow_grc"} THEN {"own", "other"} ELSE {"own"}

Set(c) == {e \in DOMAIN c : c[e] \in {"on", "alt"}}
Another(c) == \E e \in DOMAIN c : c[e] = "alt"

\* Archer's slots go by instance and user, GitLab's by host, ServiceNow's by method.
Slot(c) == IF site \in {"archer", "gitlab", "servicenow_grc"} /\ Another(c) THEN "other" ELSE "own"

StoreSecret(k) ==
    /\ serving = "up"
    /\ clicks["vault"] < MaxClicks
    /\ site = "archer" => form # "torn" /\ {"name", "user"} \subseteq Set(Loaded) /\ k = Slot(Loaded)
    /\ vault' = vault \cup {k}
    /\ clicks' = [clicks EXCEPT !["vault"] = @ + 1]
    /\ UNCHANGED <<site, world, form, stored, put, agreed, blurred, serving>>

ClearSecret(k) ==
    /\ serving = "up"
    /\ clicks["vault"] < MaxClicks
    /\ site = "archer" => form # "torn" /\ {"name", "user"} \subseteq Set(Loaded) /\ k = Slot(Loaded)
    /\ vault' = vault \ {k}
    /\ clicks' = [clicks EXCEPT !["vault"] = @ + 1]
    /\ UNCHANGED <<site, world, form, stored, put, agreed, blurred, serving>>

-----------------------------------------------------------------------------
(* The process *)

(* The start loads the file, and writes the defaults if there is none.      *)
StartUp ==
    /\ serving = "off"
    /\ serving' = IF form = "torn" THEN "failed" ELSE "up"
    /\ form' = IF form = "none" THEN "whole" ELSE form
    /\ stored' = IF form = "none" THEN FileOf(Defaults(site)) ELSE stored
    /\ UNCHANGED <<site, world, vault, put, agreed, blurred, clicks>>

(* The process is killed, perhaps while it writes. *)
Killed ==
    /\ \/ serving = "up" /\ form' \in {form} \cup (IF \E w \in Writers : put[w].at = "truncated"
                                                   THEN {"torn"} ELSE {})
       \/ serving = "off" /\ form = "none" /\ form' \in {"blank", "torn"}
    /\ stored' = IF form' = "torn" THEN Empty ELSE stored
    /\ blurred' = (blurred \/ form' = "torn" \/ \E w \in Writers : put[w].at = "truncated")
    /\ put' = [w \in Writers |-> AtRest]
    /\ serving' = "off"
    /\ UNCHANGED <<site, world, vault, agreed, clicks>>

-----------------------------------------------------------------------------
(* What a site has: the entries that are set, "alt" if one is set to the      *)
(* other choice, the secrets under the present names, and the world.          *)
Have(c) ==
    Set(c) \cup (IF Another(c) THEN {"alt"} ELSE {}) \cup world
           \cup (IF Slot(c) \in vault THEN {"secret"} ELSE {}) \cup (vault \cap {"second"})

Outside(s) ==
    IF s = "emass" THEN {"certFile", "keyFile"}
    ELSE IF s \in {"archer", "servicenow_grc"} THEN {"envSecret", "envFlag"}
    ELSE IF s \in {"gitlab", "confluence"} THEN {"envSecret"}
    ELSE IF s \in Models THEN {"envToken", "envKey"} ELSE {}

ArcherPassword(h) == h \cap {"secret", "envSecret"} # {}
GitLabToken(h) == h \cap {"secret", "envSecret"} # {}
SnowSecret(h) == h \cap {"secret", "envSecret"} # {}
SnowEnabled(h) == h \cap {"enable", "envFlag"} # {}
JiraGates(h) == {"enable", "gate"} \subseteq h
WikiGates(h) == {"v04", "gate"} \subseteq h
EmassGates(h) == {"v04", "gate"} \subseteq h

(* GET /status: "configured" *)
EmassConfigured(h) == {"url", "system", "cert", "certFile"} \subseteq h /\ {"v04", "gate"} \subseteq h
TenableConfigured(h) == {"flavor", "secret", "second"} \subseteq h /\ ("alt" \in h \/ "host" \in h)
SplunkConfigured(h) == {"host", "secret", "searches"} \subseteq h
ArcherConfigured(h) == {"url", "name", "user"} \subseteq h
GitLabConfigured(h) == {"url", "projects"} \subseteq h /\ GitLabToken(h)
WikiConfigured(h) == {"url", "spaces", "secret", "v04", "gate"} \subseteq h
JiraConfigured(h) == {"url", "secret", "queries"} \subseteq h
SnowConfigured(h) == {"url", "user"} \subseteq h
SweepConfigured(h) == "url" \in h

Configured(h) ==
    \/ site = "emass" /\ EmassConfigured(h)
    \/ site = "tenable" /\ TenableConfigured(h)
    \/ site = "splunk" /\ SplunkConfigured(h)
    \/ site = "archer" /\ ArcherConfigured(h)
    \/ site = "gitlab" /\ GitLabConfigured(h)
    \/ site = "confluence" /\ WikiConfigured(h)
    \/ site = "jira" /\ JiraConfigured(h)
    \/ site = "servicenow_grc" /\ SnowConfigured(h)
    \/ site = "sharepoint" /\ SweepConfigured(h)

(* POST /test without a body: nothing that is stored stands in the way of an *)
(* answer by the service. SharePoint's secret is a token that needs no click. *)
EmassTestable(h) ==
    /\ {"url", "system", "cert", "certFile"} \subseteq h
    /\ "key" \in h => "keyFile" \in h
    /\ EmassGates(h)
TenableTestable(h) ==
    /\ "flavor" \in h
    /\ "alt" \notin h => "host" \in h
    /\ {"secret", "second"} \subseteq h
SplunkTestable(h) == {"enable", "host", "secret", "searches"} \subseteq h
ArcherTestable(h) ==
    {"url", "name", "user", "envFlag"} \subseteq h /\ ArcherPassword(h)
GitLabTestable(h) == {"url", "projects"} \subseteq h /\ GitLabToken(h)
WikiTestable(h) == WikiGates(h) /\ {"url", "spaces", "secret"} \subseteq h
JiraTestable(h) == JiraGates(h) /\ {"url", "secret", "queries"} \subseteq h
SnowTestable(h) == {"url", "user"} \subseteq h /\ SnowEnabled(h) /\ SnowSecret(h)
SweepTestable(h) == {"sweep", "url", "secret"} \subseteq h

Testable(h) ==
    \/ site = "emass" /\ EmassTestable(h)
    \/ site = "tenable" /\ TenableTestable(h)
    \/ site = "splunk" /\ SplunkTestable(h)
    \/ site = "archer" /\ ArcherTestable(h)
    \/ site = "gitlab" /\ GitLabTestable(h)
    \/ site = "confluence" /\ WikiTestable(h)
    \/ site = "jira" /\ JiraTestable(h)
    \/ site = "servicenow_grc" /\ SnowTestable(h)
    \/ site = "sharepoint" /\ SweepTestable(h)

(* The schedule's _build_source returns a source. *)
Pullable(h) ==
    \/ site = "sharepoint" /\ "url" \in h
    \/ site = "gitlab" /\ {"enable", "url", "projects"} \subseteq h
    \/ site = "splunk" /\ {"enable", "host", "secret", "searches"} \subseteq h
    \/ /\ site = "tenable"
       /\ {"enable", "flavor", "secret", "second"} \subseteq h
       /\ "alt" \in h \/ "host" \in h
    \/ site = "servicenow_grc" /\ {"enable", "url", "user", "auth"} \subseteq h

(* GET /settings: "a secret is set" *)
SecretShown(h) ==
    \/ site = "tenable" /\ {"secret", "second"} \subseteq h
    \/ site \in {"emass", "splunk", "jira", "servicenow_grc"} \cup Models /\ "secret" \in h
    \/ site = "archer" /\ {"name", "user"} \subseteq h /\ ArcherPassword(h)
    \/ site = "gitlab" /\ "url" \in h /\ GitLabToken(h)

-----------------------------------------------------------------------------
(* The models. "secret" is the provider's own key, "second" the gateway's    *)
(* token, "envToken" and "envKey" the variables *_AUTH_TOKEN and *_API_KEY.  *)

One(t, h) == IF t \in h THEN t ELSE "none"
Or(t, u) == IF t # "none" THEN t ELSE u

GatewayToken(h) == Or(One("second", h), One("envToken", h))

AnthropicToken(h) ==
    IF "url" \in h THEN Or(GatewayToken(h), One("secret", h)) ELSE One("secret", h)

OpenAIToken(h) ==
    IF "url" \in h THEN Or(GatewayToken(h), Or(One("envKey", h), One("secret", h)))
    ELSE Or(One("secret", h), One("envKey", h))

\* What a client is given; Anthropic's falls back on the environment.
AnthropicClient(h) == Or(AnthropicToken(h), One("envKey", h))
OpenAIClient(h) == OpenAIToken(h)

ClientToken(h) == IF site = "anthropic" THEN AnthropicClient(h) ELSE OpenAIClient(h)

(* POST .../test: what each test asks the endpoint with, "none" if it refuses. *)
AnthropicKeyTest(h) == IF "model" \in h THEN AnthropicToken(h) ELSE "none"
OpenAIKeyTest(h) == IF "model" \in h THEN OpenAIToken(h) ELSE "none"
AnthropicGatewayTest(h) == IF {"url", "model"} \subseteq h THEN GatewayToken(h) ELSE "none"
OpenAIGatewayTest(h) == IF {"url", "model"} \subseteq h THEN GatewayToken(h) ELSE "none"
AnthropicList(h) == AnthropicToken(h)
OpenAIList(h) == OpenAIToken(h)

Tests(h) ==
    IF site = "anthropic"
    THEN {AnthropicKeyTest(h), AnthropicGatewayTest(h), AnthropicList(h)}
    ELSE {OpenAIKeyTest(h), OpenAIGatewayTest(h), OpenAIList(h)}

-----------------------------------------------------------------------------
SettingsInit ==
    /\ site \in Sites
    /\ world \in SUBSET Outside(site)
    /\ form = "none"
    /\ stored = Empty
    /\ vault \in SUBSET SlotsOf(site)
    /\ put = [w \in Writers |-> AtRest]
    /\ agreed = Defaults(site)
    /\ blurred = FALSE
    /\ serving = "off"
    /\ clicks = [c \in Writers \cup {"vault"} |-> 0]

SettingsNext ==
    \/ \E w \in Writers : \/ \E b \in Bodies(w) : Receive(w, b)
                          \/ Truncate(w)
                          \/ Close(w)
    \/ \E k \in SlotsOf(site) : StoreSecret(k) \/ ClearSecret(k)
    \/ StartUp
    \/ Killed

SettingsSpec == SettingsInit /\ [][SettingsNext]_settingsVars

-----------------------------------------------------------------------------
(* The file is empty only while it is written or after a kill, unreadable     *)
(* only after two writers met or one was killed.                              *)
SettingsTypeOK ==
    /\ form \in {"none", "blank", "whole", "torn"}
    /\ form = "torn" => blurred
    /\ serving = "failed" => form = "torn"
    /\ DOMAIN Loaded = DOMAIN agreed

(* While no two writers overlap and none is killed, every request reads what  *)
(* the answered ones asked for: a cleared entry stays cleared, over a restart *)
(* as well.                                                                   *)
AgreedIsRead ==
    ~blurred /\ (\A w \in Writers : put[w].at # "truncated") => Loaded = agreed

(* A connector whose test can succeed is shown as configured, with its secret *)
(* unless that comes from the environment. One that is shown as configured    *)
(* fails its test only for what the badge leaves out.                         *)
BadgeLeavesOut(h) ==
    \/ site = "emass" /\ "key" \in h /\ "keyFile" \notin h
    \/ site \in {"splunk", "jira"} /\ ~({"enable", "gate"} \cap Entries[site] \subseteq h)
    \/ site = "servicenow_grc" /\ ~(SnowEnabled(h) /\ SnowSecret(h))
    \/ site = "archer" /\ ~(ArcherPassword(h) /\ "envFlag" \in h)
    \/ site = "sharepoint" /\ ~({"sweep", "secret"} \subseteq h)

BadgeIsHonest(h) ==
    /\ Testable(h) => Configured(h)
    /\ Testable(h) /\ site \notin {"emass", "confluence", "sharepoint"}
            => SecretShown(h) \/ "envSecret" \in h
    /\ site \in Connectors /\ Configured(h) /\ ~Testable(h) => BadgeLeavesOut(h)

(* A schedule pulls from a connector that is enabled and tests well, but for  *)
(* a ServiceNow whose method is left to its default; it pulls from none that  *)
(* is switched off, but for SharePoint.                                       *)
ScheduleFollowsTest(h) ==
    /\ site \in Scheduled /\ "enable" \in h /\ Testable(h)
            => Pullable(h) \/ (site = "servicenow_grc" /\ "auth" \notin h)
    /\ Pullable(h) /\ site # "sharepoint" => "enable" \in h
    /\ Pullable(h) => Testable(h) \/ BadgeLeavesOut(h) \/ (site = "gitlab" /\ ~GitLabToken(h))

(* Every test of a provider asks with the token that the runs will use, and   *)
(* a run that has a token can be tested, but for Anthropic's from the         *)
(* environment.                                                               *)
TestsSpeakForRuns(h) ==
    /\ Tests(h) \subseteq {"none", ClientToken(h)}
    /\ "model" \in h /\ ClientToken(h) # "none"
            => ClientToken(h) \in Tests(h) \/ (site = "anthropic" /\ ClientToken(h) = "envKey")

(* The configuration is what the user was told it is, and its readers agree.  *)
SettingsSafe ==
    /\ SettingsTypeOK
    /\ AgreedIsRead
    /\ form # "torn" =>
        \A h \in {Have(Loaded)} :
            IF site \in Models THEN TestsSpeakForRuns(h)
            ELSE BadgeIsHonest(h) /\ ScheduleFollowsTest(h)
=============================================================================
