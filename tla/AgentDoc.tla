------------------------------ MODULE AgentDoc ------------------------------
(***************************************************************************)
(* internal/workspace: the file the agent reads (AGENTS.md), as a sequence *)
(* of tokens: its sections, the two markers, line ends, and what the Slack *)
(* context is made of. The scheduler replaces what is between the markers  *)
(* before every prompt; it finds them by their text.                       *)
(***************************************************************************)
EXTENDS Naturals, SequencesExt

StartMarker == "<start>"   \* slackContextStartMarker
EndMarker == "<end>"       \* slackContextEndMarker
LineEnd == "<nl>"

\* CreateSessionWorkspace: generated constraints, intro and an empty context,
\* then the bot's identity, the Context API and the user's appendix, if any.
\* SlackContextSectionHTMLComment("") leaves an empty line between the markers.
Before == <<"constraints", "intro">>
After(bot, api, appendix) ==
  <<LineEnd, LineEnd>> \o (IF bot THEN <<"bot">> ELSE <<>>)
                      \o (IF api THEN <<"api">> ELSE <<>>) \o appendix
NewDoc(bot, api, appendix) ==
  Before \o <<StartMarker, LineEnd, LineEnd, EndMarker>> \o After(bot, api, appendix)

Places(doc, token) == {i \in 1..Len(doc) : doc[i] = token}

\* strings.TrimRight(newInner, "\n")
Trimmed(body) ==
  SubSeq(body, 1, Max({0} \cup {i \in 1..Len(body) : body[i] # LineEnd}))

\* ReplaceSlackContextBody fails without both markers in their order.
Replaceable(doc) ==
  /\ Places(doc, StartMarker) # {} /\ Places(doc, EndMarker) # {}
  /\ Min(Places(doc, StartMarker)) < Min(Places(doc, EndMarker))
  /\ \E i \in Places(doc, LineEnd) : i > Min(Places(doc, StartMarker))

\* Faulty: the last end marker is taken.
Replaced_LastEnd(doc, body) ==
  LET i == Min(Places(doc, StartMarker))
      j == Max(Places(doc, EndMarker))
      line == Min({k \in Places(doc, LineEnd) : k > i})
  IN SubSeq(doc, 1, line) \o Trimmed(body) \o <<LineEnd>> \o SubSeq(doc, j, Len(doc))

Replaced(doc, body) ==
  LET i == Min(Places(doc, StartMarker))
      j == Min(Places(doc, EndMarker))
      line == Min({k \in Places(doc, LineEnd) : k > i})
  IN SubSeq(doc, 1, line) \o Trimmed(body) \o <<LineEnd>> \o SubSeq(doc, j, Len(doc))

\* A refusal leaves the file as it is; the message is answered with the error.
Refresh(doc, body) == IF Replaceable(doc) THEN Replaced(doc, body) ELSE doc

RefreshAll(doc, bodies) == FoldLeft(Refresh, doc, bodies)

-----------------------------------------------------------------------------
\* After any sequence of messages the file still has everything in front of
\* the context and behind it, and the context of the latest message begins
\* right after the marker. It holds nothing of earlier ones, unless one of
\* them quoted the end marker.
ContextIsTheLatest(bot, api, appendix, bodies) ==
  LET doc == RefreshAll(NewDoc(bot, api, appendix), bodies)
      latest == Trimmed(bodies[Len(bodies)])
      head == Before \o <<StartMarker, LineEnd>> \o latest \o <<LineEnd, EndMarker>>
      tail == After(bot, api, appendix)
      quoted == \E i \in 1..Len(bodies) : Places(bodies[i], EndMarker) # {}
  IN
  /\ SubSeq(doc, 1, Len(head)) = head
  /\ SubSeq(doc, Len(doc) - Len(tail) + 1, Len(doc)) = tail
  /\ ~quoted => doc = head \o tail
=============================================================================
