----------------------------- MODULE LocalFixes -----------------------------
(***************************************************************************)
(* The fixes of the scanner's local server: an agent proposes a            *)
(* replacement for the lines of an issue, and the user applies it.         *)
(* Requests run concurrently, and the user goes on editing the files.      *)
(*                                                                         *)
(* Source: ollantascanner/server/aifix.go.  A file is a sequence of lines; *)
(* a hash stands for the text it is made of.                               *)
(***************************************************************************)
EXTENDS Integers, Sequences, FiniteSets, SequencesExt

CONSTANTS Clients, Replacements, \* requests at a time; replacements, sequences of lines
          Agents,                \* records [id, provider, model, key]; a key may be missing
          ProviderOptions,       \* providers a request may name instead of an agent
          Paths, Issues,         \* the project's files; records [path, line, last]
          Contents,              \* the contents a file may have
          MaxEdits, MaxPreviews  \* bounds of the model

ASSUME LocalFixesAssumption ==
    /\ MaxEdits \in Nat /\ MaxPreviews \in Nat
    /\ \A a \in Agents : a.provider \in {"mock", "openai"}

VARIABLES
    disk,     \* path of the project -> its lines
    previews, \* the stored previews; a preview's id is its place
    request,  \* client -> its request; Free
    edits     \* edits of the user

fixVars == <<disk, previews, request, edits>>

Free == [op |-> "none"]

-----------------------------------------------------------------------------
(* Agents                                                                  *)

\* validateAgentConfigs: one invalid or duplicate agent leaves the service without agents.
ConfiguredAgents ==
    IF \E a, b \in Agents : a # b /\ a.id = b.id THEN {} ELSE Agents

\* resolveRequestedAgent: an agent by its id, or one made of a provider and a model.
RequestedAgents ==
    ConfiguredAgents \cup {[id |-> "selected", provider |-> o.provider, model |-> o.model, key |-> o.key] : o \in ProviderOptions}

\* openAIProvider.GenerateFix: without a key there is no answer.
Answers(agent) == agent.provider = "mock" \/ agent.key

-----------------------------------------------------------------------------
(* Lines                                                                   *)

\* extractLineRange: an end beyond the file is its last line.
LastLine(lines, last) == IF last > Len(lines) THEN Len(lines) ELSE last
ExtractLineRange(lines, first, last) == SubSeq(lines, first, LastLine(lines, last))

\* replaceLineRange
ReplaceLineRange(lines, first, last, replacement) ==
    SubSeq(lines, 1, first - 1) \o replacement \o SubSeq(lines, LastLine(lines, last) + 1, Len(lines))

\* extractIssueSnippet: an end before the start is the start; the start must be a line of the file.
EndLine(issue) == IF issue.last < issue.line THEN issue.line ELSE issue.last
SnippetExists(issue) == issue.line > 0 /\ issue.line <= Len(disk[issue.path])

-----------------------------------------------------------------------------
(* Requests                                                                *)

Answered(c) == request' = [request EXCEPT ![c] = Free]

\* generatePreview: resolveIssuePath keeps to the project; the file is read as it is now.
BeginPreview(c, agent, issue) ==
    /\ request[c] = Free
    /\ issue.path \in Paths /\ SnippetExists(issue)
    /\ request' = [request EXCEPT ![c] =
          [op |-> "preview", answers |-> Answers(agent), path |-> issue.path, first |-> issue.line,
           last |-> EndLine(issue), original |-> disk[issue.path]]]
    /\ UNCHANGED <<disk, previews, edits>>

\* generatePreview: the provider's answer, unless it fails or is empty, is stored under the mutex.
StorePreview(c, replacement) ==
    LET r == request[c]
    IN  /\ r.op = "preview" /\ Len(previews) < MaxPreviews
        /\ r.answers /\ replacement # <<>>
        /\ previews' = Append(previews, [path |-> r.path, first |-> r.first, last |-> r.last,
                                         original |-> r.original, replacement |-> replacement])
        /\ Answered(c)
        /\ UNCHANGED <<disk, edits>>

PreviewFails(c) == request[c].op = "preview" /\ Answered(c) /\ UNCHANGED <<disk, previews, edits>>

\* Mutant of Unchanged: only the lines of the snippet are compared.
UnchangedSnippet(p) ==
    ExtractLineRange(disk[p.path], p.first, p.last) = ExtractLineRange(p.original, p.first, p.last)

\* applyPreview: the hash of the file and that of the snippet.
Unchanged(p) ==
    /\ disk[p.path] = p.original
    /\ ExtractLineRange(disk[p.path], p.first, p.last) = ExtractLineRange(p.original, p.first, p.last)

\* applyPreview: the preview is looked up and its file read and compared.
BeginApply(c, id) ==
    /\ request[c] = Free
    /\ Unchanged(previews[id])
    /\ LET p == previews[id]
       IN  request' = [request EXCEPT ![c] =
              [op |-> "apply", id |-> id, path |-> p.path,
               updated |-> ReplaceLineRange(disk[p.path], p.first, p.last, p.replacement)]]
    /\ UNCHANGED <<disk, previews, edits>>

\* applyPreview: the file is written; the preview stays.
WriteFile(c) ==
    /\ request[c].op = "apply"
    /\ disk' = [disk EXCEPT ![request[c].path] = request[c].updated]
    /\ Answered(c)
    /\ UNCHANGED <<previews, edits>>

\* A file that cannot be written; an unfinished request.
ApplyFails(c) == request[c].op = "apply" /\ Answered(c) /\ UNCHANGED <<disk, previews, edits>>

\* The user saves another content of a file.
Edit(path, content) ==
    /\ edits < MaxEdits /\ content # disk[path]
    /\ disk' = [disk EXCEPT ![path] = content]
    /\ edits' = edits + 1
    /\ UNCHANGED <<previews, request>>

FixInit ==
    /\ disk \in [Paths -> Contents]
    /\ previews = <<>> /\ request = [c \in Clients |-> Free] /\ edits = 0

FixNext ==
    \/ \E c \in Clients :
          \/ \E agent \in RequestedAgents, issue \in Issues : BeginPreview(c, agent, issue)
          \/ \E replacement \in Replacements : StorePreview(c, replacement)
          \/ PreviewFails(c)
          \/ \E id \in DOMAIN previews : BeginApply(c, id)
          \/ WriteFile(c) \/ ApplyFails(c)
    \/ \E path \in Paths, content \in Contents : Edit(path, content)

FixSpec == FixInit /\ [][FixNext]_fixVars

-----------------------------------------------------------------------------
(* Properties                                                              *)

\* What is applied is what was shown: the file as the preview read it, with the lines of the
\* preview replaced and the others as they were (generatePreview and applyPreview).
AppliedAsPreviewed ==
    [][\A c \in Clients :
          request[c].op = "apply" /\ disk' # disk /\ request'[c] = Free =>
             LET p == previews[request[c].id]
             IN  disk'[p.path] = ReplaceLineRange(p.original, p.first, p.last, p.replacement)]_fixVars
=============================================================================
