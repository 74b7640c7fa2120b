----------------------------- MODULE ContextApi -----------------------------
(***************************************************************************)
(* internal/contextapi's HTTP handlers: which requests of an agent are     *)
(* answered, and what is sent to Slack for them. The registry is given as  *)
(* a set of tokens and their sessions (Scheduler has its life cycle).      *)
(***************************************************************************)
EXTENDS Naturals, Sequences, SequencesExt

CONSTANTS
  Method,    \* names of Slack methods
  NoValue    \* an empty text, a bearer token, a path or a registry that is missing

\* allowedSlackWebAPIMethods
Allowed == {"conversations.replies", "conversations.info", "conversations.history",
            "users.info", "users.profile.get", "team.info", "files.info"}

ASSUME MethodAssumption == Allowed \subseteq Method /\ NoValue \notin Method

\* A session is a record of its channel, root timestamp and team; a registry
\* maps the tokens of the sessions that are alive to them.
Param == {"channel", "ts", "team", "token", "TOKEN", "limit"}

\* A request has the values of each parameter in their order, none when it is
\* absent. A value is the texts its commas separate, and whether it has spaces
\* around it.
Value(Text) == [texts : Seq(Text \cup {NoValue}) \ {<<>>}, padded : BOOLEAN]

-----------------------------------------------------------------------------
(* Admission, the same for both handlers but for the bot token.             *)

Admission(registry, verb, wanted, token) ==
  CASE verb # wanted     -> "method not allowed"
    [] verb = wanted /\ token = NoValue -> "missing bearer token"
    [] verb = wanted /\ token # NoValue /\ registry = NoValue -> "registry disabled"
    [] verb = wanted /\ token # NoValue /\ registry # NoValue /\ token \notin DOMAIN registry
         -> "invalid token"
    [] OTHER             -> "ok"

-----------------------------------------------------------------------------
(* The parameters. A form may repeat one, and its values are all kept. A    *)
(* JSON object has each name once, and a list there becomes one value.      *)

\* mapToURLValues, a list
Joined(values) ==
  IF Len(values) = 1 THEN values[1]
  ELSE [texts |-> FlattenSeq([i \in 1..Len(values) |-> values[i].texts]),
        padded |-> \E i \in 1..Len(values) : values[i].padded]

\* parseProxyParams: a body that is neither is not read.
Parsed(q) ==
  [n \in Param |->
     CASE q.body = "form" -> q.given[n]
       [] q.body = "json" /\ q.given[n] # <<>> -> <<Joined(q.given[n])>>
       [] OTHER -> <<>>]

\* stripTokenParam: every value, however the name is written.
Stripped(params) == [params EXCEPT !["token"] = <<>>, !["TOKEN"] = <<>>]

\* vals.Get and TrimSpace: the first value, empty when there is none.
First(params, n) == IF params[n] = <<>> THEN <<NoValue>> ELSE params[n][1].texts

-----------------------------------------------------------------------------
(* The proxy.                                                               *)

\* Faulty: the root of a thread is not compared.
SessionRules_AnyThread(method, params, s) ==
  /\ method \in {"conversations.replies", "conversations.info", "conversations.history"} =>
       First(params, "channel") = <<s.channel>>
  /\ method = "team.info" => First(params, "team") \in {<<NoValue>>, <<s.team>>}

\* enforceProxySessionRules
SessionRules(method, params, s) ==
  /\ method \in {"conversations.replies", "conversations.info", "conversations.history"} =>
       First(params, "channel") = <<s.channel>>
  /\ method = "conversations.replies" => First(params, "ts") = <<s.ts>>
  /\ method = "team.info" => First(params, "team") \in {<<NoValue>>, <<s.team>>}

\* The status, and what goes to Slack when it is "forwarded".
Proxy(registry, botToken, q) ==
  LET params == Stripped(Parsed(q))
      a == Admission(registry, q.verb, "POST", q.token)
      status == CASE a # "ok" -> a
                  [] a = "ok" /\ ~botToken -> "slack token not configured"
                  [] a = "ok" /\ botToken /\ q.method = NoValue -> "no method in path"
                  [] a = "ok" /\ botToken /\ q.method # NoValue /\ q.method \notin Allowed
                       -> "slack method not allowed"
                  [] a = "ok" /\ botToken /\ q.method \in Allowed /\ q.body = "unreadable"
                       -> "invalid body"
                  [] OTHER -> IF SessionRules(q.method, params, registry[q.token])
                              THEN "forwarded" ELSE "outside the session"
  IN [status |-> status, params |-> params]

-----------------------------------------------------------------------------
(* What the answers mean.                                                   *)

\* The parameters that tell a method whose data it is to read.
Judged(method) ==
  CASE method = "conversations.replies" -> {"channel", "ts"}
    [] method \in {"conversations.info", "conversations.history"} -> {"channel"}
    [] method = "team.info" -> {"team"}
    [] OTHER -> {}

\* A text that names the session, as AGENTS.md has it; Slack knows the team
\* without being told.
Names(texts, n, s) == texts = <<s[n]>> \/ (n = "team" /\ texts = <<NoValue>>)

\* A request is forwarded exactly when it has the token of a session that is
\* alive and the first value of each parameter that is judged names that
\* session. All values arrive as they were parsed, without a token. So every
\* value that is judged by Slack names the session when the body is JSON, lists
\* included, and when it is a form that gives each of them once; of a form that
\* repeats one the handler vouches for the first value only.
ProxyKeepsToItsThread(registry, botToken, q) ==
  LET a == Proxy(registry, botToken, q)
      s == registry[q.token]
      judged == Judged(q.method)
      once == q.body = "json" \/ \A n \in judged : Len(q.given[n]) <= 1
  IN
  /\ a.status = "forwarded" <=>
       /\ botToken /\ registry # NoValue /\ q.token \in DOMAIN registry
       /\ q.verb = "POST" /\ q.method \in Allowed /\ q.body # "unreadable"
       /\ \A n \in judged : Names(First(Parsed(q), n), n, s)
  /\ a.status = "forwarded" /\ once =>
       \A n \in judged : \A i \in DOMAIN a.params[n] : Names(a.params[n][i].texts, n, s)
  /\ \A n \in Param : a.params[n] = IF n \in {"token", "TOKEN"} THEN <<>> ELSE Parsed(q)[n]
=============================================================================
