----------------------------- MODULE MCDataPath -----------------------------
(***************************************************************************)
(* The way of a prompt's data, for model checking: the cursor session step *)
(* by step, and around it the pure parts, each on every input of a small   *)
(* set. An input that is not Nothing takes the place of a behaviour.       *)
(***************************************************************************)
EXTENDS CursorRun, SlackThread, ContextApi, AgentDoc, Mrkdwn

CONSTANT Nothing

\* The value of an absent parameter is no token.
ASSUME NoValueAssumption == NoValue \notin {"mine", "other"}

VARIABLE input

Upto(S, n) == UNION {[1..k -> S] : k \in 0..n}

\* A thread of four messages at most, and what disturbs the first requests.
Thread(k) == [i \in 1..k |-> [ts |-> i, size |-> 1]]
Page == [size : 0..BatchCap, extra : 0..1, missing : 0..1, fails : BOOLEAN]
Replies ==
  [kind : {"replies"}, length : 0..4, max : 0..4, pages : Upto(Page, 2)] \cup
  [kind : {"window"}, length : 0..4, limit : 0..5, pages : Upto(Page, 1),
   exclude : 0..3, oldest : 0..3]

\* Lines of no, one or two characters, and every budget around their sum.
Lines == [kind : {"lines"}, sizes : Upto(0..2, 4), trigger : 0..4, chars : 0..8]

\* Two sessions of one channel; the second may be gone.
Mine == [channel |-> "C", ts |-> "1", team |-> "T"]
Other == [channel |-> "C", ts |-> "2", team |-> "T"]
Registries ==
  {[t \in {"mine"} |-> Mine], [t \in {"mine", "other"} |-> IF t = "mine" THEN Mine ELSE Other]}
\* Parameters: what a session of "C" may say, what it may not, an empty value,
\* one with spaces around it, and pairs of values in both orders.
Text1(t) == [texts |-> <<t>>, padded |-> FALSE]
Given(own, foreign) ==
  {<<>>} \cup {<<Text1(t)>> : t \in {own, foreign, NoValue}}
         \cup {<<Text1(own), Text1(foreign)>>, <<Text1(foreign), Text1(own)>>}
Spaced == <<[texts |-> <<"C">>, padded |-> TRUE]>>
Params ==
  {[channel |-> c, ts |-> r, team |-> t, token |-> x, TOKEN |-> x, limit |-> <<Text1("5")>>] :
     c \in Given("C", "D") \cup {Spaced}, r \in Given("1", "2"), t \in Given("T", "U"),
     x \in {<<>>, <<Text1("xoxb"), Text1("xoxp")>>}}
Bodies == {"json", "form", "other", "unreadable"}
\* Every parameter with a token that counts, and every way to be refused.
Requests ==
  [kind : {"request"}, registry : Registries, bot : {TRUE},
   q : [verb : {"POST"}, token : {"mine"}, method : Method, body : Bodies, given : Params]] \cup
  [kind : {"request"}, registry : Registries \cup {NoValue}, bot : BOOLEAN,
   q : [verb : {"GET", "POST"}, token : {"mine", "other", NoValue}, method : Method \cup {NoValue},
        body : Bodies,
        given : {[n \in Param |-> IF n = "channel" THEN Spaced
                                   ELSE IF n = "ts" THEN <<Text1(r)>> ELSE <<>>] :
                   r \in {"1", "2"}}]]

\* Bodies quote the markers, and end in empty lines.
Body == Upto({"word", LineEnd, StartMarker, EndMarker}, 2)
Quote == Upto({"word", EndMarker}, 2)
Docs ==
  [kind : {"doc"}, bot : BOOLEAN, api : BOOLEAN,
   appendix : {<<>>, <<"user">>, <<EndMarker, "user">>, <<StartMarker>>},
   bodies : Body \X Body] \cup
  [kind : {"doc"}, bot : {TRUE}, api : {TRUE}, appendix : {<<"user">>},
   bodies : Quote \X Quote \X Quote]

\* Mentions and words are numbered by their place. Pairs of tags are code, whose
\* ends become backticks, or another.
Pieces(t) ==
  FlattenSeq([i \in 1..Len(t) |->
    CASE t[i] = "fence" -> Fence
      [] t[i] = "tick" -> <<Tick>>
      [] t[i] = "special" -> <<Special>>
      [] t[i] = "mention" -> <<Mention(i)>>
      [] t[i] = "break" -> <<Break>>
      [] t[i] = "code" -> <<Open(Code)>>
      [] t[i] = "endcode" -> <<Close(Code)>>
      [] t[i] = "bold" -> <<Open(Code + 1)>>
      [] t[i] = "endbold" -> <<Close(Code + 1)>>
      [] OTHER -> <<Word(i)>>])
PlainPiece == {"fence", "tick", "special", "mention", "word"}
HtmlPiece == {"fence", "tick", "mention", "break", "code", "endcode", "bold", "endbold"}
Texts == [kind : {"text"}, text : Upto(PlainPiece, 6) \cup Upto(HtmlPiece, 5)]
Tables == [kind : {"table"}, lines : Upto({"row", "separator", "text"}, 6)]

-----------------------------------------------------------------------------
Is(kind) == input # Nothing /\ input.kind = kind

MCInit ==
  /\ Init
  /\ \/ input = Nothing
     \/ input \in Replies \/ input \in Lines
     \/ input \in Requests
     \/ input \in Docs
     \/ input \in Texts \/ input \in Tables

MCNext == input = Nothing /\ Next /\ UNCHANGED input

MCSpec == MCInit /\ [][MCNext]_<<vars, input>> /\ Fairness

-----------------------------------------------------------------------------
\* However many messages Slack sends at a time, the replies of a thread are its
\* first ones, as many as asked for; the Context API answers the part that was
\* asked for; and of those the prompt gets as many as fit its budget.
ThreadIsReadInOrder ==
  /\ Is("replies") => ReadsFromTheStart(Thread(input.length), input.max, input.pages)
  /\ Is("window") => AnswersTheWindow(Thread(input.length), input.pages, input.limit,
                                      input.exclude, input.oldest)
  /\ Is("lines") =>
       FillsTheBudget([i \in 1..Len(input.sizes) |-> [ts |-> i, size |-> input.sizes[i]]],
                      input.trigger, input.chars)

\* A request goes to Slack when the parameters AGENTS.md restricts name the
\* session of its token, and never with a token; a list in JSON does not get
\* around it, and a form only by giving a parameter twice.
ProxyStaysInSession ==
  Is("request") => ProxyKeepsToItsThread(input.registry, input.bot, input.q)

\* The agent's file survives any sequence of context updates.
DocumentSurvives ==
  Is("doc") => ContextIsTheLatest(input.bot, input.api, input.appendix, input.bodies)

\* A reply keeps its code, its Slack tokens and its tables in the conversion.
ReplyKeepsItsContent ==
  /\ Is("text") => CodeAndTokensComeBack(Pieces(input.text))
  /\ Is("table") =>
       TableRowsComeBack([i \in 1..Len(input.lines) |-> <<input.lines[i], i>>])
=============================================================================
