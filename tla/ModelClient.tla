----------------------------- MODULE ModelClient -----------------------------
(***************************************************************************)
(* The client of the model (llm/client.py), shared by the workers of a     *)
(* batch, by the judge's pool and by the tagger.  Every caller sends one   *)
(* or two requests through one funnel; OpenAI's HyDE call is three callers *)
(* at once, a thread of its own for each of its scaffolds, whose texts it  *)
(* joins.  Some models refuse a request                                    *)
(* that names a temperature: the first refusal turns a flag of the client  *)
(* off, the request is sent again without, and later ones leave it out.    *)
(* The flag is read and written by every worker without a lock.            *)
(*                                                                         *)
(* An answer may be cut at the token cap, and its text may hold any JSON   *)
(* or none: what a call makes of it depends on what it asked for, and on   *)
(* the provider.  One behaviour is about one client, of one provider, to   *)
(* one endpoint.                                                           *)
(***************************************************************************)
EXTENDS Integers, Sequences

CONSTANTS Callers,      \* the threads, with one call or one scaffold of HyDE each
          Replies,      \* what a model may write: the JSON objects of its text, in order
          Usages,       \* the usage envelopes that gateways pass on
          Bill,         \* the tokens that each of them stands for
          MaxAttempts   \* MAX_ATTEMPTS, of a throttled request

ASSUME ClientAssumption == /\ Bill \in Nat /\ MaxAttempts \in Nat \ {0}
                           /\ \A text \in Replies :
                                 \A i \in DOMAIN text : text[i].abstain \in BOOLEAN

VARIABLES provider,   \* "anthropic" or "openai"
          takes,      \* the endpoint accepts a temperature
          supports,   \* _supports_temperature
          call        \* of each caller

clientVars == <<provider, takes, supports, call>>

Ops == {"propose", "pair", "judge", "verify", "extract", "expand", "image"}

Unset == [said |-> "none"]

\* bad: the endpoint refuses the request whatever its temperature; temp: temperature is
\* among its arguments; began: the flag as the call began; first: the pass before this
\* one; result: what the caller is given; counted: the tokens reported to it, of answers.
Fresh == [at |-> "new", op |-> "propose", bad |-> FALSE, temp |-> FALSE, began |-> TRUE,
          image |-> "small", tries |-> 0, turn |-> 1, refusals |-> 0, first |-> Unset,
          result |-> Unset, answers |-> 0, counted |-> 0]

\* make_client
ClientInit ==
    /\ provider \in {"anthropic", "openai"}
    /\ takes \in BOOLEAN
    /\ supports = TRUE
    /\ call = [c \in Callers |-> Fresh]

Stands(c, l) == call[c].at = l

-----------------------------------------------------------------------------
(* Reading an answer                                                       *)

(* _coerce_confidence, in hundredths, of the number that is stated, if one *)
(* is: what is above one is taken for a percentage.                        *)
Confidence(stated) ==
    IF stated = {} THEN 0
    ELSE LET raw == CHOOSE n \in stated : TRUE
             val == IF raw > 100 THEN raw \div 100 ELSE raw
         IN  IF val < 0 THEN 0 ELSE IF val > 100 THEN 100 ELSE val

\* _coerce_status: what is no status raises.
Statuses == {"C", "NC", "NA"}

Envelope(o) == o.status # "absent" /\ o.narrative # "absent"

Held == [said |-> "held", status |-> "NC", confidence |-> 0]

Stated(e) == [said |-> IF e.abstain THEN "abstain" ELSE "verdict", status |-> e.status,
              confidence |-> Confidence(e.confidence)]

Firsts(S) == {i \in S : \A j \in S : i <= j}

(* parse_response, the one reading: of the first object with both keys.    *)
(* The regular expression that is tried after it finds none that this did  *)
(* not.                                                                    *)
Parse(text) ==
    LET envelopes == {i \in DOMAIN text : Envelope(text[i])}
        read(e) == IF e.status \notin Statuses \/ e.narrative # "text" THEN Held ELSE Stated(e)
    IN  IF envelopes = {} THEN {Held} ELSE {read(text[i]) : i \in Firsts(envelopes)}

\* _parse_extraction_json: from the first brace to the last there is one object.
Extractable(text) == Len(text) = 1

Proposal(text, cut) == IF cut THEN {Held} ELSE Parse(text)

Field(u, k) == IF k \in DOMAIN u THEN u[k] ELSE 0

Tokens(base, out, read) == (IF base < 0 THEN 0 ELSE base) + out + read

\* _openai_usage: the prompt's tokens include those read from the cache.
OpenAiUsage(u) ==
    Tokens(Field(u, "prompt_tokens") - Field(u, "cached_tokens"),
           Field(u, "completion_tokens"), Field(u, "cached_tokens"))

\* _UsageBlock.from_sdk: the first of three shapes that yields any tokens.
FromSdk(u) ==
    LET native == Tokens(Field(u, "input_tokens"), Field(u, "output_tokens"),
                         Field(u, "cache_read_input_tokens"))
    IN  IF Field(u, "input_tokens") + Field(u, "output_tokens") > 0 THEN native
        ELSE IF OpenAiUsage(u) > 0 THEN OpenAiUsage(u)
        ELSE Tokens(Field(u, "inputTokens"), Field(u, "outputTokens"),
                    Field(u, "cacheReadInputTokens"))

Counted(u) == IF provider = "openai" THEN OpenAiUsage(u) ELSE FromSdk(u)

\* Of an envelope, all of its tokens are counted, or none.
ASSUME UsageAssumption ==
    \A u \in Usages : OpenAiUsage(u) \in {0, Bill} /\ FromSdk(u) \in {0, Bill}

-----------------------------------------------------------------------------
(* Sending a request                                                       *)

(* "expand" is Anthropic's HyDE call or one scaffold of OpenAI's: each has *)
(* arguments of its own, reads the flag and is refused by itself, and a    *)
(* failed one leaves the others alone.                                     *)
Begin(c) ==
    /\ Stands(c, "new")
    /\ \E op \in Ops, bad \in BOOLEAN :
          \E image \in IF op = "image" THEN {"small", "large", "huge"} ELSE {"small"} :
             call' = [call EXCEPT ![c].at = "opening", ![c].op = op, ![c].bad = bad,
                                  ![c].image = image, ![c].began = supports]
    /\ UNCHANGED <<provider, takes, supports>>

\* _downscale_to_fit: an image over the cap is shrunk to it, unless it is too large.
Shrunk(image) == IF image = "large" THEN "small" ELSE image

\* Only OpenAI's client shrinks an image.
Sendable(image) == (IF provider = "openai" THEN Shrunk(image) ELSE image) = "small"

\* What is kept of a call that is over.
Ended(c, result, counted) ==
    [call[c] EXCEPT !.at = "done", !.image = "small", !.temp = FALSE, !.tries = 0, !.turn = 1,
                    !.result = result, !.counted = @ + counted]

Give(c, result, counted) == call' = [call EXCEPT ![c] = Ended(c, result, counted)]

Skip(c) ==
    /\ Stands(c, "opening") /\ ~Sendable(call[c].image)
    /\ Give(c, [said |-> "nothing"], 0)
    /\ UNCHANGED <<provider, takes, supports>>

\* However the argument came there, the funnel takes it out when the flag is off.
Open(c) ==
    /\ Stands(c, "opening") /\ Sendable(call[c].image)
    /\ call' = [call EXCEPT ![c].at = "sending", ![c].temp = supports, ![c].tries = 1]
    /\ UNCHANGED <<provider, takes, supports>>

(* HyDE and vision degrade to nothing; the other calls hand the error on.  *)
Fail(c, cause) ==
    Give(c, IF call[c].op \in {"expand", "image"} THEN [said |-> "nothing"]
            ELSE [said |-> "raised", cause |-> cause], 0)

\* Mutant: the request is sent again only by the caller that turns the flag off.
RefuseOnce(c) ==
    /\ Stands(c, "sending") /\ call[c].temp /\ (~takes \/ call[c].bad)
    /\ IF supports
       THEN /\ supports' = FALSE
            /\ call' = [call EXCEPT ![c].temp = FALSE, ![c].refusals = @ + 1]
       ELSE UNCHANGED supports /\ Fail(c, "temperature")
    /\ UNCHANGED <<provider, takes>>

(* A refusal of a request with a temperature, for whatever reason: the     *)
(* caller's own arguments decide that it is sent again, not the flag.      *)
RefuseTemperature(c) ==
    /\ Stands(c, "sending") /\ call[c].temp /\ (~takes \/ call[c].bad)
    /\ supports' = FALSE
    /\ call' = [call EXCEPT ![c].temp = FALSE, ![c].refusals = @ + 1]
    /\ UNCHANGED <<provider, takes>>

RefuseForGood(c) ==
    /\ Stands(c, "sending") /\ ~call[c].temp /\ call[c].bad
    /\ Fail(c, "bad")
    /\ UNCHANGED <<provider, takes, supports>>

Break(c) ==
    /\ Stands(c, "sending")
    /\ Fail(c, "broken")
    /\ UNCHANGED <<provider, takes, supports>>

\* run_with_rate_limit_retry sends the request as it is by then.
Throttle(c) ==
    /\ Stands(c, "sending")
    /\ IF call[c].tries < MaxAttempts THEN call' = [call EXCEPT ![c].tries = @ + 1]
       ELSE Fail(c, "throttled")
    /\ UNCHANGED <<provider, takes, supports>>

Accept(c) ==
    /\ Stands(c, "sending") /\ ~call[c].bad /\ (call[c].temp => takes)
    /\ call' = [call EXCEPT ![c].at = "answered", ![c].answers = @ + 1]
    /\ UNCHANGED <<provider, takes, supports>>

-----------------------------------------------------------------------------
(* What becomes of an answer                                               *)

(* A proposal is noted with the temperature that the flag tells by now.    *)
Noted(c, proposal, text, cut) ==
    [said |-> "proposal", of |-> proposal, sent |-> call[c].temp,
     noted |-> supports, whole |-> IF cut THEN <<>> ELSE text]

(* The first pass of a pair: the second is asked about it, whatever it is. *)
ReadFirstPass(c) ==
    /\ Stands(c, "answered") /\ call[c].op = "pair" /\ call[c].turn = 1
    /\ \E u \in Usages :
          call' = [call EXCEPT ![c].at = "opening", ![c].turn = 2, ![c].counted = Counted(u),
                     ![c].first = [said |-> "proposal", sent |-> call[c].temp]]
    /\ UNCHANGED <<provider, takes, supports>>

ReadProposal(c) ==
    /\ Stands(c, "answered")
    /\ call[c].op = "propose" \/ (call[c].op = "pair" /\ call[c].turn = 2)
    /\ \E text \in Replies, cut \in BOOLEAN, u \in Usages :
          \E proposal \in Proposal(text, cut) :
             Give(c, Noted(c, proposal, text, cut), Counted(u))
    /\ UNCHANGED <<provider, takes, supports>>

\* What a judge may be answered: an object with a score that is a number, an object
\* without a score, or neither.
JudgeAnswers == {"stated", "unstated", "garbled"}

Score(c, answer, s) ==
    \E u \in Usages : Give(c, [said |-> "score", answer |-> answer, score |-> s], Counted(u))

(* The score of a candidate: as stated, 0 ("not relevant") where none is,  *)
(* or -1 for an error, which the callers tell from 0.  OpenAI's client     *)
(* looks at the cap first and takes what it cannot read for 0.             *)
ReadScore(c) ==
    /\ Stands(c, "answered") /\ call[c].op = "judge" /\ provider = "openai"
    /\ \E answer \in JudgeAnswers :
          \/ Score(c, answer, "error")
          \/ Score(c, answer, IF answer = "stated" THEN "stated" ELSE "zero")
    /\ UNCHANGED <<provider, takes, supports>>

(* Anthropic's client asks once more for an answer that it cannot read,    *)
(* and returns the usage of the last; an object without a score is read.   *)
ReadScoreTwice(c) ==
    /\ Stands(c, "answered") /\ call[c].op = "judge" /\ provider = "anthropic"
    /\ \/ Score(c, "stated", "stated")
       \/ Score(c, "unstated", "zero")
       \/ /\ call[c].turn = 1
          /\ call' = [call EXCEPT ![c].at = "opening", ![c].turn = 2]
       \/ call[c].turn = 2 /\ Score(c, "garbled", "error")
    /\ UNCHANGED <<provider, takes, supports>>

(* The verifier's text goes to the tagger; OpenAI's client gives none when *)
(* it was cut.                                                             *)
ReadRelationship(c) ==
    /\ Stands(c, "answered") /\ call[c].op = "verify"
    /\ \E cut \in BOOLEAN, u \in Usages :
          Give(c, [said |-> IF provider = "openai" /\ cut THEN "nothing" ELSE "text"], Counted(u))
    /\ UNCHANGED <<provider, takes, supports>>

\* HyDE, vision and extraction report no usage.
ReadProse(c) ==
    /\ Stands(c, "answered") /\ call[c].op \in {"expand", "image"}
    /\ Give(c, [said |-> "text"], 0)
    /\ UNCHANGED <<provider, takes, supports>>

ReadExtraction(c) ==
    /\ Stands(c, "answered") /\ call[c].op = "extract"
    /\ \E text \in Replies :
          Give(c, IF Extractable(text) THEN [said |-> "text"]
                  ELSE [said |-> "raised", cause |-> "garbled"], 0)
    /\ UNCHANGED <<provider, takes, supports>>

ClientStep(c) ==
    \/ Begin(c) \/ Skip(c) \/ Open(c)
    \/ RefuseTemperature(c) \/ RefuseForGood(c) \/ Break(c) \/ Throttle(c) \/ Accept(c)
    \/ ReadFirstPass(c) \/ ReadProposal(c) \/ ReadScore(c) \/ ReadScoreTwice(c)
    \/ ReadRelationship(c) \/ ReadProse(c) \/ ReadExtraction(c)

ClientNext == \E c \in Callers : ClientStep(c)

ClientSpec == ClientInit /\ [][ClientNext]_clientVars

-----------------------------------------------------------------------------
Given(c, said) == Stands(c, "done") /\ call[c].result.said = said

\* Somebody's request is refused whatever its temperature.
SomeBad == \E c \in Callers : call[c].bad

ClientTypeOK ==
    /\ supports \in BOOLEAN
    /\ \A c \in Callers :
          /\ call[c].at \in {"new", "opening", "sending", "answered", "done"}
          /\ call[c].op \in Ops /\ call[c].turn \in {1, 2} /\ call[c].tries \in 0..MaxAttempts

(* However many callers run into it at once, a refused temperature fails   *)
(* no call: what fails is refused without one too, is throttled to the     *)
(* last attempt, or breaks.                                                *)
TemperatureFailsNobody ==
    \A c \in Callers : Given(c, "raised") =>
       call[c].result.cause \in {"bad", "broken", "throttled", "garbled"}
       /\ (call[c].result.cause = "bad" => call[c].bad)

(* A refusal is paid at most once by a caller, so up to three times by a   *)
(* HyDE call of OpenAI's, and by none that begins after the first; and an  *)
(* endpoint that takes a temperature loses it only to somebody's bad       *)
(* request.                                                                *)
RefusalsAreFew ==
    /\ \A c \in Callers : /\ call[c].refusals <= 1
                          /\ ~call[c].began => call[c].refusals = 0
    /\ takes /\ ~SomeBad => supports

(* The temperature a proposal is noted with was sent, and only a bad       *)
(* request of somebody makes a proposal deny the one that was: the two     *)
(* passes of a pair differ in it for no other reason.                      *)
NotedAsSent ==
    \A c \in Callers :
       /\ Given(c, "proposal") =>
             LET r == call[c].result
             IN  /\ r.noted => r.sent
                 /\ r.sent /\ ~r.noted => SomeBad
                 /\ call[c].op = "pair" /\ r.sent # call[c].first.sent => SomeBad
       /\ call[c].first.said = "proposal" /\ ~takes => ~call[c].first.sent

(* A verdict is one that the text states, with a narrative, and its        *)
(* confidence too; nothing is made of an answer that was cut.              *)
VerdictsAreStated ==
    \A c \in Callers : Given(c, "proposal") =>
       LET p == call[c].result.of
           text == call[c].result.whole
       IN  p.said # "held" =>
             \E i \in DOMAIN text :
                /\ text[i].status = p.status /\ text[i].narrative = "text"
                /\ text[i].abstain = (p.said = "abstain")
                /\ text[i].confidence = {} => p.confidence = 0

(* A score that is no error and no zero is stated.  No candidate is taken  *)
(* for irrelevant over an answer that could not be read, except by         *)
(* OpenAI's client, though both take one for irrelevant over an object     *)
(* without a score; Anthropic's reports an error only when it was answered *)
(* twice and could not read the last.                                      *)
ScoresAreRead ==
    \A c \in Callers : Given(c, "score") =>
       LET r == call[c].result
       IN  /\ r.score = "stated" => r.answer = "stated"
           /\ r.score = "zero" => r.answer # "stated"
           /\ r.score = "zero" /\ r.answer = "garbled" => provider = "openai"
           /\ r.score = "error" /\ provider = "anthropic" =>
                 r.answer = "garbled" /\ call[c].answers = 2

(* The tokens of every answer are reported once, of those that report any: *)
(* a judge's first attempt is lost, and an unknown envelope counts none.   *)
TokensAreCounted ==
    \A c \in Callers : Stands(c, "done") /\ call[c].result.said # "raised" =>
       /\ call[c].counted \in {Bill * n : n \in 0..call[c].answers}
       /\ call[c].op = "judge" => call[c].counted <= Bill

(* One client serves all its callers: none fails or is noted otherwise     *)
(* over another's refusal, and no more is made of an answer than it says.  *)
ClientSafe ==
    /\ ClientTypeOK /\ TemperatureFailsNobody /\ RefusalsAreFew /\ NotedAsSent
    /\ VerdictsAreStated /\ ScoresAreRead /\ TokensAreCounted
=============================================================================
