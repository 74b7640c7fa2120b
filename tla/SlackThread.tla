---------------------------- MODULE SlackThread ----------------------------
(***************************************************************************)
(* internal/slackthread: what of a thread is read, and what of that gets   *)
(* into the prompt; and the filter of the Context API's thread/messages.   *)
(* A message is its timestamp and the length of its formatted line, 0 when *)
(* FormatLine has nothing to show for it.                                  *)
(***************************************************************************)
EXTENDS Integers, SequencesExt

CONSTANTS
  BatchCap,    \* the most CollectReplies asks for at once
  DefaultMax,  \* DefaultMaxMessages
  DefaultChars,\* DefaultMaxChars
  DefaultLimit, MaxLimit   \* of the Context API's limit parameter

ASSUME ThreadBounds ==
  {BatchCap, DefaultMax, DefaultChars, DefaultLimit, MaxLimit} \subseteq Nat \ {0}

-----------------------------------------------------------------------------
(* CollectReplies. Slack answers each request for a batch: it may send fewer*)
(* messages or more, the latest may not be there yet, and it may fail.      *)

SlackPage == [size : Nat, extra : Nat, missing : Nat, fails : BOOLEAN]

\* Slack with nothing in its way.
FullPage == [size |-> BatchCap, extra |-> 0, missing |-> 0, fails |-> FALSE]
Disturbed(p) == p.fails \/ p.size = 0 \/ p.missing # 0

Length(thread, p) == Max({0, Len(thread) - p.missing})

\* One turn of the loop. Slack has more, and says where, while it has not
\* sent everything; an empty page ends the loop.
\* Faulty: a page shorter than what was asked for is taken for the last one.
Request_ShortEnds(thread, max, st, p) ==
  LET had  == Len(st.got)
      asked == Min({max - had, BatchCap})
      page == SubSeq(thread, had + 1, Min({had + Min({asked, p.size}) + p.extra, Length(thread, p)}))
  IN IF st.pc # "run" \/ had >= max THEN st
     ELSE IF p.fails THEN [got |-> <<>>, pc |-> "error"]
     ELSE [got |-> st.got \o page, pc |-> IF Len(page) >= asked THEN "run" ELSE "done"]

Request(thread, max, st, p) ==
  LET had  == Len(st.got)
      asked == Min({max - had, BatchCap})
      page == SubSeq(thread, had + 1, Min({had + Min({asked, p.size}) + p.extra, Length(thread, p)}))
      more == had + Len(page) < Length(thread, p)
  IN IF st.pc # "run" \/ had >= max THEN st
     ELSE IF p.fails THEN [got |-> <<>>, pc |-> "error"]
     ELSE [got |-> st.got \o page, pc |-> IF more /\ page # <<>> THEN "run" ELSE "done"]

\* The pages given, then undisturbed ones. What the last page has too many is
\* cut off.
CollectReplies(thread, maxMsgs, pages) ==
  LET max == IF maxMsgs = 0 THEN DefaultMax ELSE maxMsgs
      rest == [i \in 1..(Len(thread) + 1) |-> FullPage]
      end == FoldLeft(LAMBDA st, p : Request(thread, max, st, p),
                      [got |-> <<>>, pc |-> "run"], pages \o rest)
  IN [end EXCEPT !.got = SubSeq(@, 1, Min({max, Len(@)}))]

-----------------------------------------------------------------------------
(* TranscriptExcluding                                                      *)

\* The first line that does not fit is replaced by a notice, and is the last.
\* Faulty: the newline after a line is not paid for.
Append_NoNewline(st, m) ==
  IF st.cut THEN st
  ELSE IF m.size > st.left THEN [st EXCEPT !.cut = TRUE]
  ELSE [st EXCEPT !.lines = Append(@, m), !.left = @ - m.size]

AppendLine(st, m) ==
  IF st.cut THEN st
  ELSE IF m.size + 1 > st.left THEN [st EXCEPT !.cut = TRUE]
  ELSE [st EXCEPT !.lines = Append(@, m), !.left = @ - (m.size + 1)]

\* A loop that goes on to the next message unless this one is in wanted.
Kept(msgs, wanted) ==
  FoldLeft(LAMBDA out, m : IF m \in wanted THEN Append(out, m) ELSE out, <<>>, msgs)

Shown(msgs, trigger) == Kept(msgs, {m \in Range(msgs) : m.ts # trigger /\ m.size > 0})

Transcript(msgs, trigger, maxChars) ==
  FoldLeft(AppendLine,
           [lines |-> <<>>, cut |-> FALSE, left |-> IF maxChars = 0 THEN DefaultChars ELSE maxChars],
           Shown(msgs, trigger))

-----------------------------------------------------------------------------
(* handleThreadMessages, once the token has been accepted: 0 stands for a   *)
(* parameter that is not given. The limit counts before the others do.      *)

Limit(given) == Min({IF given = 0 THEN DefaultLimit ELSE given, MaxLimit})

ThreadMessages(thread, pages, given, exclude, oldest) ==
  LET r == CollectReplies(thread, Limit(given), pages) IN
  IF r.pc = "error" THEN [status |-> "slack error", messages |-> <<>>]
  ELSE [status |-> "ok",
        messages |-> Kept(r.got, {m \in Range(r.got) : m.ts # exclude /\ m.ts > oldest})]

-----------------------------------------------------------------------------
(* What the results mean.                                                   *)

\* The first messages of the thread, without a gap or a repetition, as many as
\* asked for, unless Slack failed or sent an empty page.
ReadsFromTheStart(thread, maxMsgs, pages) ==
  LET r == CollectReplies(thread, maxMsgs, pages)
      max == IF maxMsgs = 0 THEN DefaultMax ELSE maxMsgs
  IN
  /\ Len(r.got) <= max
  /\ r.got = SubSeq(thread, 1, Len(r.got))
  /\ (\A i \in 1..Len(pages) : ~Disturbed(pages[i])) => r.got = SubSeq(thread, 1, Min({max, Len(thread)}))

\* A thread within the limit is answered in full: what is newer than oldest,
\* without the excluded message. (Of a longer one the newest are missing.)
AnswersTheWindow(thread, pages, given, exclude, oldest) ==
  LET a == ThreadMessages(thread, pages, given, exclude, oldest)
  IN (\A i \in 1..Len(pages) : ~Disturbed(pages[i])) /\ Len(thread) <= Limit(given) =>
       {a.messages[i] : i \in 1..Len(a.messages)} =
         {thread[i] : i \in {i \in 1..Len(thread) :
                               thread[i].ts > oldest /\ thread[i].ts # exclude}}

Cost(lines) == FoldLeft(LAMBDA n, m : n + m.size + 1, 0, lines)

\* The lines fit the budget, are the first that are to be shown, and are all
\* of them unless the next one would not have fitted.
FillsTheBudget(msgs, trigger, maxChars) ==
  LET t == Transcript(msgs, trigger, maxChars)
      shown == Shown(msgs, trigger)
      k == Len(t.lines)
      budget == IF maxChars = 0 THEN DefaultChars ELSE maxChars
  IN
  /\ Cost(t.lines) <= budget
  /\ t.lines = SubSeq(shown, 1, k)
  /\ t.cut <=> k < Len(shown)
  /\ t.cut => Cost(SubSeq(shown, 1, k + 1)) > budget
=============================================================================
