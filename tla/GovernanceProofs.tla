-------------------------- MODULE GovernanceProofs --------------------------
(***************************************************************************)
(* Theorems about the parts that MCGovernance puts side by side: the tag   *)
(* vocabulary, custom rules, quality profiles and quality gates.           *)
(***************************************************************************)
EXTENDS MCGovernance, FiniteSetTheorems, SequenceTheorems, Recursions, TLAPS

-----------------------------------------------------------------------------
(* Tags                                                                    *)

\* The tables name keys and targets that exist, an array is the array of an issue.
TagShape ==
    /\ aliases \in [Keys -> Keys \cup {None}]
    /\ assigned \subseteq Targets \X Keys
    /\ carried \in [Issues -> SUBSET Keys]
    /\ asked = [u \in Users |-> asked[u]]

\* Between its reads and its transaction a merge goes from a key to another one, and a bulk edit
\* holds, with the tags it read, what it makes of them.
TagRequestsSound ==
    \A u \in Users :
        /\ asked[u].op = "update" => asked[u].key \in Keys
        /\ asked[u].op = "merge" => /\ asked[u].source \in Keys /\ asked[u].target \in Keys
                                    /\ asked[u].source # asked[u].target
        /\ asked[u].op = "bulk" =>
             /\ asked[u].target \in Targets /\ asked[u].edit.add \subseteq Keys
             /\ asked[u].change.before \subseteq Keys
             /\ asked[u].change.after
                  = (asked[u].change.before \cup asked[u].edit.add) \ asked[u].edit.remove

TagInv == TagShape /\ TagRequestsSound

\* The request of one user is replaced.
LEMMA TagRequestReplaced ==
  ASSUME TagInv, NEW u \in Users, NEW request, asked' = [asked EXCEPT ![u] = request]
  PROVE  /\ asked' = [v \in Users |-> asked'[v]]
         /\ \A v \in Users : asked'[v] = IF v = u THEN request ELSE asked[v]
BY DEF TagInv, TagShape

LEMMA ResolvedIsKey ==
  ASSUME TagInv, NEW k, k \in Keys \cup {None}, ResolveTagKey(k) # None
  PROVE  ResolveTagKey(k) \in Keys
BY TagAssumption DEF TagInv, TagShape, ResolveTagKey

LEMMA TagsInit == TagInit => TagInv
BY DEF TagInit, TagInv, TagShape, TagRequestsSound, Idle

LEMMA TagsKept == TagInv /\ [TagNext]_tagVars => TagInv'
<1> SUFFICES ASSUME TagInv, [TagNext]_tagVars PROVE TagInv'
  OBVIOUS
<1> USE DEF TagInv
<1>1. ASSUME NEW keys \in SUBSET Keys, DiscoverTags(keys) PROVE TagInv'
  BY <1>1 DEF DiscoverTags, TagShape, TagRequestsSound
<1>2. ASSUME NEW u \in Users, NEW k, NEW owner, CreateTag(u, k, owner) PROVE TagInv'
  BY <1>2 DEF CreateTag, TagShape, TagRequestsSound
<1>3. ASSUME NEW u \in Users, NEW k \in Keys, NEW update, NEW names, UpdateTag(u, k, update, names)
      PROVE  TagInv'
  <2>1. ResolveTagKey(k) \in Keys
    BY <1>3, ResolvedIsKey DEF UpdateTag
  <2>2. \E next : asked' = [asked EXCEPT ![u] = [op |-> "update", key |-> ResolveTagKey(k), aliases |-> names, next |-> next]]
    BY <1>3 DEF UpdateTag, Begin
  <2>3. PICK next : asked' = [asked EXCEPT ![u] = [op |-> "update", key |-> ResolveTagKey(k), aliases |-> names, next |-> next]]
    BY <2>2
  <2> DEFINE request == [op |-> "update", key |-> ResolveTagKey(k), aliases |-> names, next |-> next]
  <2>4. request.op = "update" /\ request.key \in Keys
    BY <2>1
  <2> HIDE DEF request
  <2>5. /\ asked' = [v \in Users |-> asked'[v]]
        /\ \A v \in Users : asked'[v] = IF v = u THEN request ELSE asked[v]
    BY <2>3, TagRequestReplaced DEF request
  <2>6. UNCHANGED <<aliases, assigned, carried>>
    BY <1>3 DEF UpdateTag
  <2>7. QED
    BY <2>4, <2>5, <2>6 DEF TagShape, TagRequestsSound
<1>4. ASSUME NEW u \in Users, NEW s \in Keys, NEW t \in Keys, MergeTag(u, s, t) PROVE TagInv'
  <2> DEFINE request == [op |-> "merge", source |-> s, target |-> ResolveTagKey(t)]
  <2>1. request.op = "merge" /\ request.source \in Keys /\ request.target \in Keys /\ request.source # request.target
    BY <1>4, ResolvedIsKey DEF MergeTag
  <2>2. asked' = [asked EXCEPT ![u] = request] /\ UNCHANGED <<aliases, assigned, carried>>
    BY <1>4 DEF MergeTag, Begin
  <2> HIDE DEF request
  <2>3. /\ asked' = [v \in Users |-> asked'[v]]
        /\ \A v \in Users : asked'[v] = IF v = u THEN request ELSE asked[v]
    BY <2>2, TagRequestReplaced
  <2>4. QED
    BY <2>1, <2>2, <2>3 DEF TagShape, TagRequestsSound
<1>5. ASSUME NEW u \in Users, NEW x \in Targets, NEW add \in SUBSET Keys, NEW remove \in SUBSET Keys,
             ApplyBulkEdit(u, x, add, remove)
      PROVE  TagInv'
  <2> DEFINE edit == Normalized(add, remove)
             change == BuildTagChange(TagsOf(x), edit)
             request == [op |-> "bulk", target |-> x, edit |-> edit, change |-> change]
  <2>1. edit.add \subseteq Keys
    <3>1. edit.add = {ResolveTagKey(k) : k \in add}
      BY DEF Normalized
    <3>2. \A k \in add : ResolveTagKey(k) \in Keys
      BY <1>5, ResolvedIsKey DEF ApplyBulkEdit
    <3>3. QED
      BY <3>1, <3>2
  <2>2. change.before \subseteq Keys
    BY DEF BuildTagChange, TagsOf, TagShape
  <2>3. change.after = (change.before \cup edit.add) \ edit.remove
    BY DEF BuildTagChange
  <2>4. asked' = [asked EXCEPT ![u] = request] /\ UNCHANGED <<aliases, assigned, carried>>
    BY <1>5 DEF ApplyBulkEdit, Begin
  <2> HIDE DEF edit, change
  <2>5. request.op = "bulk" /\ request.target = x /\ request.edit = edit /\ request.change = change
    OBVIOUS
  <2> HIDE DEF request
  <2>6. /\ asked' = [v \in Users |-> asked'[v]]
        /\ \A v \in Users : asked'[v] = IF v = u THEN request ELSE asked[v]
    BY <2>4, TagRequestReplaced
  <2>7. QED
    BY <2>1, <2>2, <2>3, <2>4, <2>5, <2>6 DEF TagShape, TagRequestsSound
<1>6. ASSUME NEW u \in Users, Done(u), TagShape' \/ UNCHANGED <<aliases, assigned, carried>> PROVE TagInv'
  <2>1. /\ asked' = [v \in Users |-> asked'[v]]
        /\ \A v \in Users : asked'[v] = IF v = u THEN Idle ELSE asked[v]
    BY <1>6, TagRequestReplaced DEF Done
  <2>2. QED
    BY <1>6, <2>1 DEF TagShape, TagRequestsSound, Idle
<1>7. ASSUME NEW u \in Users, UpdateTagCommit(u) PROVE TagInv'
  <2>1. asked[u].key \in Keys
    BY <1>7 DEF UpdateTagCommit, TagRequestsSound
  <2>2. aliases' \in [Keys -> Keys \cup {None}]
    BY <1>7, <2>1 DEF UpdateTagCommit, ReplaceTagAliases, TagShape
  <2>3. asked' = [v \in Users |-> asked'[v]]
    BY <1>7, TagRequestReplaced DEF UpdateTagCommit, Done
  <2>4. TagShape'
    BY <1>7, <2>2, <2>3 DEF UpdateTagCommit, TagShape
  <2>5. QED
    BY <1>6, <1>7, <2>4 DEF UpdateTagCommit
<1>8. ASSUME NEW u \in Users, MergeTagCommit(u) PROVE TagInv'
  <2> DEFINE s == asked[u].source
             t == asked[u].target
  <2>1. s \in Keys /\ t \in Keys
    BY <1>8 DEF MergeTagCommit, TagRequestsSound
  <2>2. /\ aliases' = [aliases EXCEPT ![s] = t]
        /\ assigned' = {<<p[1], IF p[2] = s THEN t ELSE p[2]>> : p \in assigned}
        /\ carried' = [x \in Issues |-> Rename(carried[x], s, t)]
        /\ Done(u)
    BY <1>8 DEF MergeTagCommit
  <2> HIDE DEF s, t
  <2>3. aliases' \in [Keys -> Keys \cup {None}]
    BY <2>1, <2>2 DEF TagShape
  <2>4. assigned' \subseteq Targets \X Keys
    BY <2>1, <2>2 DEF TagShape
  <2>5. carried' \in [Issues -> SUBSET Keys]
    BY <2>1, <2>2 DEF TagShape, Rename
  <2>6. asked' = [v \in Users |-> asked'[v]]
    BY <2>2, TagRequestReplaced DEF Done
  <2>7. TagShape'
    BY <2>3, <2>4, <2>5, <2>6 DEF TagShape
  <2>8. QED
    BY <1>6, <2>2, <2>7
<1>9. ASSUME NEW u \in Users, ApplyBulkEditCommit(u) PROVE TagInv'
  <2>1. /\ asked[u].target \in Targets /\ asked[u].edit.add \subseteq Keys
        /\ asked[u].change.after \subseteq Keys
    BY <1>9 DEF ApplyBulkEditCommit, TagRequestsSound
  <2>2. assigned' \subseteq Targets \X Keys
    BY <1>9, <2>1 DEF ApplyBulkEditCommit, ApplyTagChange, TagShape
  <2>3. carried' \in [Issues -> SUBSET Keys]
    BY <1>9, <2>1 DEF ApplyBulkEditCommit, ApplyTagChange, TagShape
  <2>4. asked' = [v \in Users |-> asked'[v]]
    BY <1>9, TagRequestReplaced DEF ApplyBulkEditCommit, Done
  <2>5. TagShape'
    BY <1>9, <2>2, <2>3, <2>4 DEF ApplyBulkEditCommit, TagShape
  <2>6. QED
    BY <1>6, <1>9, <2>5 DEF ApplyBulkEditCommit
<1>10. ASSUME NEW u \in Users, Abort(u) PROVE TagInv'
  BY <1>6, <1>10 DEF Abort
<1>11. ASSUME NEW f, NEW row, WriteFilter(f, row) PROVE TagInv'
  BY <1>11 DEF WriteFilter, TagShape, TagRequestsSound
<1>12. CASE UNCHANGED tagVars
  BY <1>12 DEF tagVars, TagShape, TagRequestsSound
<1>13. QED
  BY <1>1, <1>2, <1>3, <1>4, <1>5, <1>7, <1>8, <1>9, <1>10, <1>11, <1>12
     DEF TagNext, DeprecateTag, CreateSavedFilter, UpdateSavedFilter, DeleteSavedFilter

\* What a merge does to the uses of its two keys.
LEMMA MergeMovesUses ==
  ASSUME TagInv, NEW u \in Users, MergeTagCommit(u),
         NEW s, NEW t, s = asked[u].source, t = asked[u].target
  PROVE  /\ (TagUsage(s).targets)' = {}
         /\ (TagUsage(t).targets)' = TagUsage(t).targets \cup TagUsage(s).targets
<1>1. s \in Keys /\ t \in Keys /\ s # t
  BY DEF MergeTagCommit, TagInv, TagRequestsSound
<1>2. /\ assigned' = {<<p[1], IF p[2] = s THEN t ELSE p[2]>> : p \in assigned}
      /\ carried' = [x \in Issues |-> Rename(carried[x], s, t)]
  BY DEF MergeTagCommit
<1>3. assigned \subseteq Targets \X Keys
  BY DEF TagInv, TagShape
<1>4. \A x : <<x, s>> \notin assigned' /\ (<<x, t>> \in assigned' <=> <<x, t>> \in assigned \/ <<x, s>> \in assigned)
  BY <1>1, <1>2, <1>3
<1>5. \A x \in Issues : s \notin carried'[x] /\ (t \in carried'[x] <=> t \in carried[x] \/ s \in carried[x])
  BY <1>1, <1>2 DEF Rename
<1>6. /\ TagUsage(s)'.targets = {x \in Issues : s \in carried'[x]} \cup {x \in Targets : <<x, s>> \in assigned'}
      /\ TagUsage(t)'.targets = {x \in Issues : t \in carried'[x]} \cup {x \in Targets : <<x, t>> \in assigned'}
      /\ TagUsage(s).targets = {x \in Issues : s \in carried[x]} \cup {x \in Targets : <<x, s>> \in assigned}
      /\ TagUsage(t).targets = {x \in Issues : t \in carried[x]} \cup {x \in Targets : <<x, t>> \in assigned}
  BY DEF TagUsage
<1>7. QED
  BY <1>4, <1>5, <1>6

\* What a bulk edit makes of its target.
LEMMA BulkEditComposes ==
  ASSUME TagInv, NEW u \in Users, ApplyBulkEditCommit(u), NEW x \in Targets, asked[u].target = x,
         x \in Rules \/ carried[x] = asked[u].change.before
  PROVE  TagsOf(x)' = (TagsOf(x) \cup asked[u].edit.add) \ asked[u].edit.remove
<1> DEFINE edit == asked[u].edit
           change == asked[u].change
<1>1. /\ carried' = IF x \in Issues THEN [carried EXCEPT ![x] = change.after] ELSE carried
      /\ assigned' = (assigned \cup {<<x, k>> : k \in edit.add}) \ {<<x, k>> : k \in edit.remove}
      /\ edit.add \subseteq Keys
      /\ change.after = (change.before \cup edit.add) \ edit.remove
  BY DEF ApplyBulkEditCommit, ApplyTagChange, TagInv, TagRequestsSound
<1> HIDE DEF edit, change
<1>2. CASE x \in Issues
  <2>1. carried[x] = change.before
    BY <1>2, TagAssumption DEF change
  <2>2. carried'[x] = change.after
    BY <1>1, <1>2 DEF TagInv, TagShape
  <2>3. TagsOf(x) = carried[x] /\ TagsOf(x)' = carried'[x]
    BY <1>2 DEF TagsOf
  <2>4. QED
    BY <1>1, <2>1, <2>2, <2>3 DEF edit
<1>3. CASE x \notin Issues
  <2>1. /\ TagsOf(x) = {k \in Keys : <<x, k>> \in assigned}
        /\ TagsOf(x)' = {k \in Keys : <<x, k>> \in assigned'}
    BY <1>3 DEF TagsOf
  <2>2. \A k : <<x, k>> \in assigned' <=> (<<x, k>> \in assigned \/ k \in edit.add) /\ k \notin edit.remove
    BY <1>1
  <2>3. TagsOf(x)' = (TagsOf(x) \cup edit.add) \ edit.remove
    BY <1>1, <2>1, <2>2
  <2>4. QED
    BY <2>3 DEF edit
<1>4. QED
  BY <1>2, <1>3

\* Whatever other requests commit between the reads of a request and its transaction, a merge
\* leaves no use of its source on any target and makes every one a use of its target, and a bulk
\* edit adds and removes its own tags and keeps those of others.
THEOREM TagsAreAsRequested == TagSpec => TagsFollowRequests
<1>1. ASSUME TagInv, TagInv', [TagNext]_tagVars
      PROVE  [\A s, t \in Keys :
                (\E u \in Users : MergeTagCommit(u) /\ asked[u].source = s /\ asked[u].target = t) =>
                    /\ (TagUsage(s).targets)' = {}
                    /\ (TagUsage(t).targets)' = TagUsage(t).targets \cup TagUsage(s).targets]_tagVars
  BY <1>1, MergeMovesUses
<1>2. ASSUME TagInv, TagInv', [TagNext]_tagVars
      PROVE  [\A u \in Users, x \in Targets :
                (ApplyBulkEditCommit(u) /\ asked[u].target = x
                    /\ (x \in Rules \/ carried[x] = asked[u].change.before)) =>
                        TagsOf(x)' = (TagsOf(x) \cup asked[u].edit.add) \ asked[u].edit.remove]_tagVars
  BY <1>2, BulkEditComposes
<1>3. TagSpec => []TagInv
  BY TagsInit, TagsKept, PTL DEF TagSpec
<1>4. TagSpec => MergeLeavesNoTrace
  BY <1>1, <1>3, PTL DEF TagSpec, MergeLeavesNoTrace
<1>5. TagSpec => EditsCompose
  BY <1>2, <1>3, PTL DEF TagSpec, EditsCompose
<1>6. QED
  BY <1>4, <1>5 DEF TagsFollowRequests

TagRows ==
    [status : {"active", "discovered", "deprecated"}, owner : Users \cup {None}, replacement : Keys \cup {None}]

\* The keys that the catalog has.
Known == {k \in Keys : Exists(k)}

\* Whatever the tables refer to is in the catalog.
VocabularySound ==
    /\ catalog \in [Keys -> TagRows \cup {NoTag}]
    /\ \A k \in Known : catalog[k].replacement \in Known \cup {None}
    /\ \A k \in Keys : aliases[k] # k /\ aliases[k] \in Known \cup {None}
    /\ \A p \in assigned : p[2] \in Known
    /\ \A x \in Issues : carried[x] \subseteq Known
    /\ filters = [f \in Filters |-> filters[f]]
    /\ \A f \in Filters : filters[f] # NoTag => filters[f].tags \subseteq Known

\* What a request read and is about to write is in the catalog as well.
RequestKnown(r, known) ==
    /\ r.op = "update" => r.key \in known /\ r.next \in TagRows /\ r.next.replacement \in known \cup {None}
    /\ r.op = "merge" => r.target \in known
    /\ r.op = "bulk" => r.edit.add \subseteq known /\ r.change.before \subseteq known

ReferencesKnown == TagInv /\ VocabularySound /\ \A u \in Users : RequestKnown(asked[u], Known)

LEMMA RowIsTag == ASSUME NEW r \in TagRows PROVE r # NoTag
BY DEF TagRows, NoTag

LEMMA KnownIsRow == ASSUME VocabularySound, NEW k \in Known PROVE k \in Keys /\ catalog[k] \in TagRows
BY DEF VocabularySound, Known, Exists

\* A request stays sound while the catalog grows.
LEMMA RequestStaysKnown ==
  ASSUME NEW r, NEW S, NEW T, S \subseteq T, RequestKnown(r, S) PROVE RequestKnown(r, T)
BY DEF RequestKnown

LEMMA ResolvedIsKnown ==
  ASSUME VocabularySound, NEW k \in Keys \cup {None}, ResolveTagKey(k) # None
  PROVE  ResolveTagKey(k) \in Known
BY TagAssumption DEF VocabularySound, ResolveTagKey, Known

LEMMA UpdatedIsRow ==
  ASSUME NEW r \in TagRows, NEW S \in SUBSET Keys, r.replacement \in S \cup {None}, NEW x \in S \cup {None},
         NEW status \in {"active", "discovered", "deprecated"}
  PROVE  /\ ApplyTagUpdate(r, [status |-> status]) \in TagRows
         /\ ApplyTagUpdate(r, [status |-> status]).replacement \in S \cup {None}
         /\ ApplyTagUpdate(r, [status |-> status, replacement |-> x]) \in TagRows
         /\ ApplyTagUpdate(r, [status |-> status, replacement |-> x]).replacement \in S \cup {None}
<1>1. DOMAIN r = {"status", "owner", "replacement"}
  BY DEF TagRows
<1>2. /\ r.owner \in Users \cup {None} /\ r.replacement \in Keys \cup {None}
  BY DEF TagRows
<1>3. ApplyTagUpdate(r, [status |-> status]) = [status |-> status, owner |-> r.owner, replacement |-> r.replacement]
  BY <1>1 DEF ApplyTagUpdate
<1>4. ApplyTagUpdate(r, [status |-> status, replacement |-> x]) = [status |-> status, owner |-> r.owner, replacement |-> x]
  BY <1>1 DEF ApplyTagUpdate
<1>5. QED
  BY <1>2, <1>3, <1>4 DEF TagRows

LEMMA VocabularyAtFirst == TagInit => ReferencesKnown
<1> SUFFICES ASSUME TagInit PROVE ReferencesKnown
  OBVIOUS
<1>1. VocabularySound
  BY TagAssumption DEF TagInit, VocabularySound, Known, Exists
<1>2. \A u \in Users : RequestKnown(asked[u], Known)
  BY DEF TagInit, RequestKnown, Idle
<1>3. QED
  BY <1>1, <1>2, TagsInit DEF ReferencesKnown

\* The requests stay sound when the catalog grows and one of them is replaced.
LEMMA RequestsGoOn ==
  ASSUME ReferencesKnown, NEW u \in Users, NEW request, asked' = [asked EXCEPT ![u] = request],
         Known \subseteq Known', RequestKnown(request, Known')
  PROVE  \A v \in Users : RequestKnown(asked'[v], Known')
<1>1. \A v \in Users : asked'[v] = IF v = u THEN request ELSE asked[v]
  BY TagRequestReplaced DEF ReferencesKnown
<1>2. \A v \in Users : RequestKnown(asked[v], Known')
  BY RequestStaysKnown DEF ReferencesKnown
<1>3. QED
  BY <1>1, <1>2

\* A request begins or ends and the tables stay.
LEMMA RequestAlone ==
  ASSUME ReferencesKnown, TagInv', NEW u \in Users, NEW request, asked' = [asked EXCEPT ![u] = request],
         UNCHANGED <<catalog, aliases, assigned, carried, filters>>, RequestKnown(request, Known)
  PROVE  ReferencesKnown'
<1>1. Known' = Known
  BY DEF Known, Exists
<1>2. VocabularySound'
  BY <1>1 DEF ReferencesKnown, VocabularySound
<1>3. \A v \in Users : RequestKnown(asked'[v], Known')
  BY <1>1, RequestsGoOn
<1>4. QED
  BY <1>2, <1>3 DEF ReferencesKnown

\* The catalog gains tags that nothing replaces.
LEMMA CatalogGrows ==
  ASSUME ReferencesKnown, TagInv', NEW fresh \in SUBSET Keys, NEW row \in TagRows, row.replacement = None,
         \A k \in fresh : ~Exists(k),
         catalog' = [k \in Keys |-> IF k \in fresh THEN row ELSE catalog[k]],
         UNCHANGED <<aliases, assigned, carried, filters, asked>>
  PROVE  ReferencesKnown'
<1>1. Known' = Known \cup fresh
  BY RowIsTag DEF Known, Exists
<1>2. VocabularySound'
  <2>1. catalog' \in [Keys -> TagRows \cup {NoTag}]
    BY DEF ReferencesKnown, VocabularySound
  <2>2. \A k \in Known' : catalog'[k].replacement \in Known' \cup {None}
    <3>1. \A k \in fresh : catalog'[k] = row
      OBVIOUS
    <3>2. \A k \in Known : k \in Keys /\ k \notin fresh /\ catalog'[k] = catalog[k]
      BY DEF Known
    <3>3. \A k \in Known : catalog[k].replacement \in Known \cup {None}
      BY DEF ReferencesKnown, VocabularySound
    <3>4. QED
      BY <1>1, <3>1, <3>2, <3>3
  <2>3. QED
    BY <1>1, <2>1, <2>2 DEF ReferencesKnown, VocabularySound
<1>3. \A v \in Users : RequestKnown(asked'[v], Known')
  BY <1>1, RequestStaysKnown DEF ReferencesKnown
<1>4. QED
  BY <1>2, <1>3 DEF ReferencesKnown

\* A catalogued tag gets another row.
LEMMA RowRewritten ==
  ASSUME ReferencesKnown, NEW key \in Known, NEW row \in TagRows, row.replacement \in Known \cup {None},
         catalog' = [catalog EXCEPT ![key] = row]
  PROVE  /\ Known' = Known
         /\ catalog' \in [Keys -> TagRows \cup {NoTag}]
         /\ \A k \in Known : catalog'[k].replacement \in Known \cup {None}
<1>1. key \in Keys /\ catalog \in [Keys -> TagRows \cup {NoTag}] /\ catalog[key] # NoTag
  BY DEF ReferencesKnown, VocabularySound, Known, Exists
<1>2. \A k \in Keys : catalog'[k] = IF k = key THEN row ELSE catalog[k]
  BY <1>1
<1>3. Known' = Known
  BY <1>1, <1>2, RowIsTag DEF Known, Exists
<1>4. \A k \in Known : catalog[k].replacement \in Known \cup {None}
  BY DEF ReferencesKnown, VocabularySound
<1>5. \A k \in Known : k \in Keys
  BY DEF Known
<1>6. QED
  BY <1>1, <1>2, <1>3, <1>4, <1>5


LEMMA UpdateBegins ==
  ASSUME ReferencesKnown, TagInv', NEW u \in Users, NEW k \in Keys, NEW names,
         \/ UpdateTag(u, k, [status |-> "active"], names)
         \/ \E r \in Keys \cup {None} : UpdateTag(u, k, [status |-> "deprecated", replacement |-> r], names)
  PROVE  ReferencesKnown'
<1> DEFINE key == ResolveTagKey(k)
<1>1. key \in Known /\ key \in Keys /\ catalog[key] \in TagRows /\ catalog[key].replacement \in Known \cup {None}
  <2>1. ResolveTagKey(k) # None
    BY DEF UpdateTag
  <2>2. key \in Known
    BY <2>1, ResolvedIsKnown DEF ReferencesKnown
  <2>3. QED
    BY <2>2, KnownIsRow DEF ReferencesKnown, VocabularySound
<1>2. Known \in SUBSET Keys
  BY DEF Known
<1> HIDE DEF key
<1>3. \E next : /\ asked' = [asked EXCEPT ![u] = [op |-> "update", key |-> key, aliases |-> names, next |-> next]]
                /\ next \in TagRows /\ next.replacement \in Known \cup {None}
  <2>1. CASE UpdateTag(u, k, [status |-> "active"], names)
    <3>1. DOMAIN [status |-> "active"] = {"status"}
      OBVIOUS
    <3>2. asked' = [asked EXCEPT ![u] = [op |-> "update", key |-> key, aliases |-> names,
                                         next |-> ApplyTagUpdate(catalog[key], [status |-> "active"])]]
      BY <2>1, <3>1 DEF UpdateTag, Begin, key
    <3>3. None \in Known \cup {None}
      OBVIOUS
    <3>4. QED
      BY <1>1, <1>2, <3>2, <3>3, UpdatedIsRow
  <2>2. ASSUME NEW r \in Keys \cup {None}, UpdateTag(u, k, [status |-> "deprecated", replacement |-> r], names)
        PROVE  \E next : /\ asked' = [asked EXCEPT ![u] = [op |-> "update", key |-> key, aliases |-> names, next |-> next]]
                         /\ next \in TagRows /\ next.replacement \in Known \cup {None}
    <3> DEFINE update == [status |-> "deprecated", replacement |-> r]
               x == ResolveTagKey(r)
    <3>1. "replacement" \in DOMAIN update /\ update.replacement = r
      OBVIOUS
    <3>2. [update EXCEPT !.replacement = ResolveTagKey(@)] = [status |-> "deprecated", replacement |-> x]
      OBVIOUS
    <3>3. x \in Known \cup {None}
      BY ResolvedIsKnown DEF ReferencesKnown
    <3>4. UpdateTag(u, k, update, names)
      BY <2>2
    <3> HIDE DEF update, x
    <3>5. asked' = [asked EXCEPT ![u] = [op |-> "update", key |-> key, aliases |-> names,
                                         next |-> ApplyTagUpdate(catalog[key], [status |-> "deprecated", replacement |-> x])]]
      BY <3>1, <3>2, <3>4 DEF UpdateTag, Begin, key
    <3>6. QED
      BY <1>1, <1>2, <3>3, <3>5, UpdatedIsRow
  <2>3. QED
    BY <2>1, <2>2
<1>4. PICK next : /\ asked' = [asked EXCEPT ![u] = [op |-> "update", key |-> key, aliases |-> names, next |-> next]]
                  /\ next \in TagRows /\ next.replacement \in Known \cup {None}
  BY <1>3
<1>5. RequestKnown([op |-> "update", key |-> key, aliases |-> names, next |-> next], Known)
  BY <1>1, <1>4 DEF RequestKnown
<1>6. UNCHANGED <<catalog, aliases, assigned, carried, filters>>
  BY DEF UpdateTag
<1>7. QED
  BY <1>4, <1>5, <1>6, RequestAlone

LEMMA MergeBegins ==
  ASSUME ReferencesKnown, TagInv', NEW u \in Users, NEW s \in Keys, NEW t \in Keys, MergeTag(u, s, t)
  PROVE  ReferencesKnown'
<1>1. ResolveTagKey(t) \in Known
  BY ResolvedIsKnown DEF MergeTag, ReferencesKnown
<1>2. RequestKnown([op |-> "merge", source |-> s, target |-> ResolveTagKey(t)], Known)
  BY <1>1 DEF RequestKnown
<1>3. QED
  BY <1>2, RequestAlone DEF MergeTag, Begin

LEMMA BulkEditBegins ==
  ASSUME ReferencesKnown, TagInv', NEW u \in Users, NEW x \in Targets, NEW add \in SUBSET Keys,
         NEW remove \in SUBSET Keys, ApplyBulkEdit(u, x, add, remove)
  PROVE  ReferencesKnown'
<1> DEFINE edit == Normalized(add, remove)
           change == BuildTagChange(TagsOf(x), edit)
           request == [op |-> "bulk", target |-> x, edit |-> edit, change |-> change]
<1>1. edit.add \subseteq Known
  <2>1. edit.add = {ResolveTagKey(k) : k \in add}
    BY DEF Normalized
  <2>2. \A k \in add : ResolveTagKey(k) \in Known
    BY ResolvedIsKnown DEF ApplyBulkEdit, ReferencesKnown
  <2>3. QED
    BY <2>1, <2>2
<1>2. change.before \subseteq Known
  <2>1. change.before = TagsOf(x)
    BY DEF BuildTagChange
  <2>2. QED
    BY <2>1 DEF TagsOf, ReferencesKnown, VocabularySound
<1>3. asked' = [asked EXCEPT ![u] = request] /\ UNCHANGED <<catalog, aliases, assigned, carried, filters>>
  BY DEF ApplyBulkEdit, Begin
<1> HIDE DEF edit, change
<1>4. RequestKnown(request, Known)
  BY <1>1, <1>2 DEF RequestKnown
<1> HIDE DEF request
<1>5. QED
  BY <1>3, <1>4, RequestAlone

LEMMA UpdateCommits ==
  ASSUME ReferencesKnown, TagInv', NEW u \in Users, UpdateTagCommit(u) PROVE ReferencesKnown'
<1> DEFINE key == asked[u].key
           names == asked[u].aliases
<1>1. key \in Known /\ asked[u].next \in TagRows /\ asked[u].next.replacement \in Known \cup {None}
  BY DEF UpdateTagCommit, ReferencesKnown, RequestKnown
<1>2. /\ catalog' = [catalog EXCEPT ![key] = asked[u].next]
      /\ aliases' = ReplaceTagAliases(key, names)
      /\ asked' = [asked EXCEPT ![u] = Idle] /\ UNCHANGED <<assigned, carried, filters>>
  BY DEF UpdateTagCommit, Done
<1> HIDE DEF key, names
<1>3. /\ Known' = Known /\ catalog' \in [Keys -> TagRows \cup {NoTag}]
      /\ \A k \in Known : catalog'[k].replacement \in Known \cup {None}
  BY <1>1, <1>2, RowRewritten
<1>4. \A k \in Keys : aliases'[k] # k /\ aliases'[k] \in Known \cup {None}
  <2>1. \A k \in Keys : aliases[k] # k /\ aliases[k] \in Known \cup {None} /\ k # None
    BY TagAssumption DEF ReferencesKnown, VocabularySound
  <2>2. CASE names = Kept
    BY <1>2, <2>1, <2>2 DEF ReplaceTagAliases
  <2>3. CASE names # Kept
    BY <1>1, <1>2, <2>1, <2>3 DEF ReplaceTagAliases
  <2>4. QED
    BY <2>2, <2>3
<1>5. VocabularySound'
  BY <1>2, <1>3, <1>4 DEF ReferencesKnown, VocabularySound
<1>6. RequestKnown(Idle, Known')
  BY DEF RequestKnown, Idle
<1>7. \A v \in Users : RequestKnown(asked'[v], Known')
  BY <1>2, <1>3, <1>6, RequestsGoOn
<1>8. QED
  BY <1>5, <1>7 DEF ReferencesKnown

LEMMA MergeCommits ==
  ASSUME ReferencesKnown, TagInv', NEW u \in Users, MergeTagCommit(u) PROVE ReferencesKnown'
<1> DEFINE s == asked[u].source
           t == asked[u].target
<1>1. s \in Keys /\ t \in Known /\ s # t
  BY DEF MergeTagCommit, ReferencesKnown, TagInv, TagRequestsSound, RequestKnown
<1>2. /\ aliases' = [aliases EXCEPT ![s] = t]
      /\ assigned' = {<<p[1], IF p[2] = s THEN t ELSE p[2]>> : p \in assigned}
      /\ carried' = [x \in Issues |-> Rename(carried[x], s, t)]
      /\ asked' = [asked EXCEPT ![u] = Idle] /\ UNCHANGED filters
      /\ catalog' = [catalog EXCEPT ![s] = IF @ = NoTag THEN @
                                            ELSE [@ EXCEPT !.status = "deprecated", !.replacement = t]]
  BY DEF MergeTagCommit, Done
<1> HIDE DEF s, t
<1>3. /\ Known' = Known /\ catalog' \in [Keys -> TagRows \cup {NoTag}]
      /\ \A k \in Known : catalog'[k].replacement \in Known \cup {None}
  <2>1. catalog \in [Keys -> TagRows \cup {NoTag}] /\ \A k \in Known : catalog[k].replacement \in Known \cup {None}
    BY DEF ReferencesKnown, VocabularySound
  <2>2. CASE catalog[s] = NoTag
    <3>1. catalog' = catalog
      BY <1>1, <1>2, <2>1, <2>2
    <3>2. QED
      BY <2>1, <3>1 DEF Known, Exists
  <2>3. CASE catalog[s] # NoTag
    <3>1. s \in Known /\ catalog[s] \in TagRows
      BY <1>1, <2>1, <2>3 DEF Known, Exists
    <3>2. t \in Keys
      BY <1>1 DEF Known
    <3> DEFINE row == [catalog[s] EXCEPT !.status = "deprecated", !.replacement = t]
    <3>3. row \in TagRows /\ row.replacement = t
      BY <3>1, <3>2 DEF TagRows
    <3>4. catalog' = [catalog EXCEPT ![s] = row]
      BY <1>1, <1>2, <2>1, <2>3
    <3> HIDE DEF row
    <3>5. QED
      BY <1>1, <3>1, <3>3, <3>4, RowRewritten
  <2>4. QED
    BY <2>2, <2>3
<1>4. \A k \in Keys : aliases'[k] # k /\ aliases'[k] \in Known \cup {None}
  BY <1>1, <1>2 DEF ReferencesKnown, VocabularySound, TagInv, TagShape
<1>5. \A p \in assigned' : p[2] \in Known
  BY <1>1, <1>2 DEF ReferencesKnown, VocabularySound
<1>6. \A x \in Issues : carried'[x] \subseteq Known
  BY <1>1, <1>2 DEF ReferencesKnown, VocabularySound, Rename
<1>7. VocabularySound'
  BY <1>2, <1>3, <1>4, <1>5, <1>6 DEF ReferencesKnown, VocabularySound
<1>8. RequestKnown(Idle, Known')
  BY DEF RequestKnown, Idle
<1>9. \A v \in Users : RequestKnown(asked'[v], Known')
  BY <1>2, <1>3, <1>8, RequestsGoOn
<1>10. QED
  BY <1>7, <1>9 DEF ReferencesKnown

LEMMA BulkEditCommits ==
  ASSUME ReferencesKnown, TagInv', NEW u \in Users, ApplyBulkEditCommit(u) PROVE ReferencesKnown'
<1> DEFINE x == asked[u].target
           edit == asked[u].edit
           change == asked[u].change
<1>1. edit.add \subseteq Known /\ change.after \subseteq Known
  BY DEF ApplyBulkEditCommit, ReferencesKnown, TagInv, TagRequestsSound, RequestKnown
<1>2. /\ carried' = IF x \in Issues THEN [carried EXCEPT ![x] = change.after] ELSE carried
      /\ assigned' = (assigned \cup {<<x, k>> : k \in edit.add}) \ {<<x, k>> : k \in edit.remove}
      /\ asked' = [asked EXCEPT ![u] = Idle] /\ UNCHANGED <<catalog, aliases, filters>>
  BY DEF ApplyBulkEditCommit, ApplyTagChange, Done
<1> HIDE DEF x, edit, change
<1>3. Known' = Known
  BY <1>2 DEF Known, Exists
<1>4. \A p \in assigned' : p[2] \in Known
  BY <1>1, <1>2 DEF ReferencesKnown, VocabularySound
<1>5. \A y \in Issues : carried'[y] \subseteq Known
  BY <1>1, <1>2 DEF ReferencesKnown, VocabularySound, TagInv, TagShape
<1>6. VocabularySound'
  BY <1>2, <1>3, <1>4, <1>5 DEF ReferencesKnown, VocabularySound
<1>7. RequestKnown(Idle, Known')
  BY DEF RequestKnown, Idle
<1>8. \A v \in Users : RequestKnown(asked'[v], Known')
  BY <1>2, <1>3, <1>7, RequestsGoOn
<1>9. QED
  BY <1>6, <1>8 DEF ReferencesKnown

LEMMA FilterWritten ==
  ASSUME ReferencesKnown, TagInv', NEW f, NEW row, row # NoTag => row.tags \subseteq Known, WriteFilter(f, row)
  PROVE  ReferencesKnown'
<1>1. filters' = [filters EXCEPT ![f] = row] /\ UNCHANGED <<catalog, aliases, assigned, carried, asked>>
  BY DEF WriteFilter
<1>2. Known' = Known
  BY <1>1 DEF Known, Exists
<1>3. /\ filters' = [g \in Filters |-> filters'[g]]
      /\ \A g \in Filters : filters'[g] # NoTag => filters'[g].tags \subseteq Known
  BY <1>1 DEF ReferencesKnown, VocabularySound
<1>4. VocabularySound'
  BY <1>1, <1>2, <1>3 DEF ReferencesKnown, VocabularySound
<1>5. QED
  BY <1>1, <1>2, <1>4 DEF ReferencesKnown

LEMMA FilterNamesKnown ==
  ASSUME ReferencesKnown, NEW u, NEW v, NEW tags \in SUBSET Keys, Resolvable(tags)
  PROVE  SavedFilterFromRequest(u, v, tags).tags \subseteq Known
<1>1. SavedFilterFromRequest(u, v, tags).tags = {ResolveTagKey(k) : k \in tags}
  BY DEF SavedFilterFromRequest, CriteriaTags
<1>2. \A k \in tags : ResolveTagKey(k) \in Known
  BY ResolvedIsKnown DEF Resolvable, ReferencesKnown
<1>3. QED
  BY <1>1, <1>2

LEMMA VocabularyKept == ReferencesKnown /\ [TagNext]_tagVars => ReferencesKnown'
<1> SUFFICES ASSUME ReferencesKnown, [TagNext]_tagVars PROVE ReferencesKnown'
  OBVIOUS
<1>0. TagInv'
  BY TagsKept DEF ReferencesKnown
<1>1. \A status \in {"active", "discovered"}, owner \in Users \cup {None} :
         NewTag(status, owner) \in TagRows /\ NewTag(status, owner).replacement = None
  BY DEF NewTag, TagRows
<1>2. ASSUME NEW keys \in SUBSET Keys, DiscoverTags(keys) PROVE ReferencesKnown'
  <2> DEFINE fresh == {k \in keys : ~Exists(k)}
  <2>1. catalog' = [k \in Keys |-> IF k \in fresh THEN NewTag("discovered", None) ELSE catalog[k]]
    BY <1>2 DEF DiscoverTags
  <2>2. fresh \in SUBSET Keys /\ \A k \in fresh : ~Exists(k)
    OBVIOUS
  <2>3. UNCHANGED <<aliases, assigned, carried, filters, asked>>
    BY <1>2 DEF DiscoverTags
  <2> HIDE DEF fresh
  <2>4. QED
    BY <1>0, <1>1, <2>1, <2>2, <2>3, CatalogGrows
<1>3. ASSUME NEW u \in Users, NEW k \in Keys, NEW owner \in Users \cup {None}, CreateTag(u, k, owner)
      PROVE  ReferencesKnown'
  <2>1. catalog' = [x \in Keys |-> IF x \in {k} THEN NewTag("active", owner) ELSE catalog[x]]
    BY <1>3 DEF CreateTag, ReferencesKnown, VocabularySound
  <2>2. {k} \in SUBSET Keys /\ \A x \in {k} : ~Exists(x)
    BY <1>3 DEF CreateTag
  <2>3. UNCHANGED <<aliases, assigned, carried, filters, asked>>
    BY <1>3 DEF CreateTag
  <2>4. QED
    BY <1>0, <1>1, <2>1, <2>2, <2>3, CatalogGrows
<1>4. ASSUME NEW u \in Users, Abort(u) PROVE ReferencesKnown'
  <2>1. RequestKnown(Idle, Known)
    BY DEF RequestKnown, Idle
  <2>2. QED
    BY <1>0, <1>4, <2>1, RequestAlone DEF Abort, Done
<1>5. ASSUME NEW u \in Users, NEW f \in Filters, NEW v, NEW tags \in SUBSET Keys,
             CreateSavedFilter(u, f, v, tags) \/ UpdateSavedFilter(u, f, v, tags)
      PROVE  ReferencesKnown'
  <2>1. Resolvable(tags) /\ WriteFilter(f, SavedFilterFromRequest(u, v, tags))
    BY <1>5 DEF CreateSavedFilter, UpdateSavedFilter
  <2>2. QED
    BY <1>0, <2>1, FilterNamesKnown, FilterWritten
<1>6. ASSUME NEW u \in Users, NEW f \in Filters, DeleteSavedFilter(u, f) PROVE ReferencesKnown'
  BY <1>0, <1>6, FilterWritten DEF DeleteSavedFilter
<1>7. CASE UNCHANGED tagVars
  <2>1. Known' = Known
    BY <1>7 DEF tagVars, Known, Exists
  <2>2. QED
    BY <1>0, <1>7, <2>1 DEF tagVars, ReferencesKnown, VocabularySound
<1>8. ASSUME NEW u \in Users, NEW k \in Keys,
             \/ \E names \in SUBSET Keys : UpdateTag(u, k, [status |-> "active"], names)
             \/ \E r \in Keys \cup {None} : DeprecateTag(u, k, r)
      PROVE  ReferencesKnown'
  BY <1>0, <1>8, UpdateBegins DEF DeprecateTag
<1>9. QED
  BY <1>0, <1>2, <1>3, <1>4, <1>5, <1>6, <1>7, <1>8, MergeBegins, BulkEditBegins, UpdateCommits, MergeCommits,
     BulkEditCommits DEF TagNext

\* Nothing refers to a tag that the catalog does not have: not a replacement, not an alias, not a
\* target, not a saved filter.  The keys a request has resolved stay good until its transaction
\* because no statement deletes a row of the catalog.
THEOREM VocabularyIsClosed == TagSpec => []TagTypeOK
<1>1. ReferencesKnown => TagTypeOK
  <2> SUFFICES ASSUME ReferencesKnown PROVE TagTypeOK
    OBVIOUS
  <2>1. \A k \in Keys : catalog[k] = NoTag \/ catalog[k] \in TagRows
    BY DEF ReferencesKnown, VocabularySound
  <2>2. \A k \in Known \cup {None} : k # None => Exists(k)
    BY DEF Known
  <2>3. \A k \in Keys : catalog[k] = NoTag \/
         /\ catalog[k].status \in {"active", "discovered", "deprecated"}
         /\ catalog[k].owner \in Users \cup {None}
         /\ catalog[k].replacement \in Keys \cup {None}
         /\ catalog[k].replacement # None => Exists(catalog[k].replacement)
    <3>1. \A k \in Keys : catalog[k] = NoTag \/ catalog[k].replacement \in Known \cup {None}
      BY DEF ReferencesKnown, VocabularySound, Known, Exists
    <3>2. QED
      BY <2>1, <2>2, <3>1 DEF TagRows
  <2>4. \A k \in Keys : aliases[k] # None => Exists(aliases[k]) /\ aliases[k] # k
    BY <2>2 DEF ReferencesKnown, VocabularySound
  <2>5. \A p \in assigned : p[1] \in Targets /\ Exists(p[2])
    BY DEF ReferencesKnown, VocabularySound, TagInv, TagShape, Known
  <2>6. \A x \in Issues : \A k \in carried[x] : Exists(k)
    BY DEF ReferencesKnown, VocabularySound, Known
  <2>7. \A f \in Filters : filters[f] # NoTag => \A k \in filters[f].tags : Exists(k)
    BY DEF ReferencesKnown, VocabularySound, Known
  <2>8. QED
    BY <2>3, <2>4, <2>5, <2>6, <2>7 DEF TagTypeOK
<1>2. QED
  BY <1>1, VocabularyAtFirst, VocabularyKept, PTL DEF TagSpec

-----------------------------------------------------------------------------
(* Custom rules                                                            *)

\* The columns of a row.
IsRow(r) ==
    /\ r = [key |-> r.key, pack |-> r.pack, version |-> r.version, lifecycle |-> r.lifecycle,
            definition |-> r.definition, status |-> r.status, validated |-> r.validated]
    /\ r.definition \in Definitions

\* A row that is marked as passed was validated under its own key, with the text whose hash it keeps.
VerdictsTrue(r) == r.status = "passed" => \A d \in r.validated : Validate(r.key, d) = "passed"

RowsSound ==
    /\ \E S : versions \in Seq(S)
    /\ \A i \in RuleIds : IsRow(versions[i]) /\ VerdictsTrue(versions[i])

\* What a request holds between its statements: new rows have no verdict, and the verdict to be
\* stored is the one the row's key and the text that was read deserve.
RuleRequestSound(r, rows) ==
    /\ r.op = "insert" => /\ \E S : r.rows \in Seq(S)
                          /\ \A n \in DOMAIN r.rows : IsRow(r.rows[n]) /\ r.rows[n].status = "none"
    /\ r.op \in {"branch", "rewrite", "validated"} => r.id \in DOMAIN rows /\ r.definition \in Definitions
    /\ r.op = "validated" /\ r.status = "passed" => Validate(rows[r.id].key, r.definition) = "passed"

RuleRequestsSound ==
    /\ editing = [e \in Editors |-> editing[e]]
    /\ \A e \in Editors : RuleRequestSound(editing[e], versions)

RuleInv == RowsSound /\ RuleRequestsSound

\* What validation lets pass is a rule that matches exactly its non-compliant examples.
LEMMA PassedHoldsExamples ==
  ASSUME NEW key, NEW d \in Definition, Validate(key, d) = "passed"
  PROVE  ExamplesHold(d)
<1> DEFINE said == MetadataDiagnostics(key, d) \cup EngineDiagnostics(d)
<1>1. StatusFromDiagnostics(IF said = {} THEN ExampleDiagnostics(d) ELSE said) = "passed"
  BY DEF Validate
<1>2. \A S : StatusFromDiagnostics(S) = "passed" => "error" \notin S /\ "runtime_validation_required" \notin S
  BY DEF StatusFromDiagnostics
<1>3. said \subseteq {"error", "runtime_validation_required"}
  BY DEF MetadataDiagnostics, EngineDiagnostics
<1> HIDE DEF said
<1>4. said = {}
  BY <1>1, <1>2, <1>3
<1>5. "error" \notin ExampleDiagnostics(d)
  BY <1>1, <1>2, <1>4
<1>6. EngineDiagnostics(d) = {}
  BY <1>4 DEF said
<1>7. EffectiveEngine(d) \in {"text", "go-ast", "tree-sitter"}
  BY DEF EffectiveEngine, Definition
<1>8. /\ ~d.executable
      /\ \/ EffectiveEngine(d) = "text" /\ d.pattern # "malformed"
         \/ EffectiveEngine(d) = "go-ast" /\ d.pattern = "forbidden_call"
  BY <1>6, <1>7 DEF EngineDiagnostics
<1>9. d.examples # {}
  BY <1>5 DEF ExampleDiagnostics
<1>10. ASSUME NEW x \in d.examples
       PROVE  IF x.fits THEN x.compliant # x.occurs ELSE x.compliant
  <2>1. x.compliant # EvaluateExample(d, x).found
    <3> DEFINE wrong == {y \in d.examples : y.compliant = EvaluateExample(d, y).found}
    <3>1. ASSUME x \in wrong PROVE "error" \in ExampleDiagnostics(d)
      <4>1. "error" \in {"error" : y \in wrong}
        BY <3>1, Zenon
      <4>2. "error" \in (UNION {EvaluateExample(d, y).said : y \in d.examples}) \cup {"error" : y \in wrong}
        BY <4>1, Zenon
      <4>3. QED
        BY <1>9, <4>2, Zenon DEF ExampleDiagnostics
    <3>2. x \notin wrong
      BY <1>5, <3>1
    <3>3. QED
      BY <3>2
  <2>2. EvaluateExample(d, x).found = (IF x.fits THEN x.occurs ELSE FALSE)
    BY <1>8 DEF EvaluateExample
  <2>3. x.compliant \in BOOLEAN /\ x.fits \in BOOLEAN
    BY DEF Definition
  <2>4. CASE x.fits
    BY <2>1, <2>2, <2>4
  <2>5. CASE ~x.fits
    <3>1. x.compliant # FALSE
      BY <2>1, <2>2, <2>5
    <3>2. QED
      BY <2>3, <2>5, <3>1
  <2>6. QED
    BY <2>4, <2>5
<1>11. QED
  BY <1>8, <1>9, <1>10 DEF ExamplesHold

LEMMA SoundRowsHold == RuleInv => PublishableHoldsExamples
<1> SUFFICES ASSUME RuleInv, NEW i \in RuleIds, CanPublishCustomRule(versions[i])
             PROVE  ExamplesHold(versions[i].definition)
  BY DEF PublishableHoldsExamples
<1>1. /\ versions[i].definition \in Definition
      /\ Validate(versions[i].key, versions[i].definition) = "passed"
  BY RuleAssumption DEF CanPublishCustomRule, RuleInv, RowsSound, IsRow, VerdictsTrue
<1>2. QED
  BY <1>1, PassedHoldsExamples

\* A set that is listed.
LEMMA ListOfSet ==
  ASSUME NEW S, IsFiniteSet(S)
  PROVE  Cardinality(S) \in Nat /\ SetToSeq(S) \in [1..Cardinality(S) -> S]
<1>1. Cardinality(S) \in Nat /\ Bijection(1..Cardinality(S), S) # {}
  BY FS_CardinalityType DEF ExistsBijection
<1>2. \E f \in [1..Cardinality(S) -> S] : IsInjective(f)
  BY <1>1 DEF Bijection, Injection
<1>3. QED
  BY <1>1, <1>2 DEF SetToSeq

LEMMA DraftIsRow ==
  ASSUME NEW key, NEW pack, NEW version, NEW d \in Definitions
  PROVE  /\ IsRow(Draft(key, pack, version, d)) /\ Draft(key, pack, version, d).status = "none"
         /\ Draft(key, pack, version, d).key = key
BY DEF IsRow, Draft

LEMMA OneRowIsList == ASSUME NEW row PROVE (\E S : <<row>> \in Seq(S)) /\ DOMAIN <<row>> = {1} /\ <<row>>[1] = row
<1>1. <<row>> \in Seq({row}) /\ Len(<<row>>) = 1 /\ <<row>>[1] = row
  OBVIOUS
<1>2. DOMAIN <<row>> = {1}
  BY <1>1
<1>3. QED
  BY <1>1, <1>2

\* A step that leaves rows where they are, under their keys, and replaces one request.
LEMMA RuleStep ==
  ASSUME RuleInv, NEW e \in Editors, NEW request, editing' = [editing EXCEPT ![e] = request],
         RowsSound', RuleRequestSound(request, versions'),
         \A i \in RuleIds : i \in RuleIds' /\ versions'[i].key = versions[i].key
  PROVE  RuleInv'
<1>1. /\ editing' = [f \in Editors |-> editing'[f]]
      /\ \A f \in Editors : editing'[f] = IF f = e THEN request ELSE editing[f]
  BY DEF RuleInv, RuleRequestsSound
<1>2. ASSUME NEW f \in Editors PROVE RuleRequestSound(editing'[f], versions')
  <2>1. CASE f = e
    BY <1>1, <2>1
  <2>2. CASE f # e
    BY <1>1, <2>2 DEF RuleInv, RuleRequestsSound, RuleRequestSound, RuleIds
  <2>3. QED
    BY <2>1, <2>2
<1>3. QED
  BY <1>1, <1>2 DEF RuleInv, RuleRequestsSound

\* A request begins with what its handler has read.
LEMMA RuleStart ==
  ASSUME RuleInv, NEW e \in Editors, NEW request,
         Start(e, request) \/ Step(e, request), UNCHANGED versions, RuleRequestSound(request, versions)
  PROVE  RuleInv'
<1>1. editing' = [editing EXCEPT ![e] = request] /\ versions' = versions
  BY DEF Start, Step
<1>2. RowsSound'
  BY <1>1 DEF RuleInv, RowsSound, RuleIds
<1>3. RuleRequestSound(request, versions')
  BY <1>1
<1>4. \A i \in RuleIds : i \in RuleIds' /\ versions'[i].key = versions[i].key
  BY <1>1 DEF RuleIds
<1>5. QED
  BY <1>1, <1>2, <1>3, <1>4, RuleStep

\* A request ends with a write that keeps every row sound and under its key.
LEMMA RuleFinish ==
  ASSUME RuleInv, NEW e \in Editors, Finish(e), RowsSound',
         \A i \in RuleIds : i \in RuleIds' /\ versions'[i].key = versions[i].key
  PROVE  RuleInv'
<1>1. editing' = [editing EXCEPT ![e] = NotEditing]
  BY DEF Finish, Step
<1>2. RuleRequestSound(NotEditing, versions')
  BY DEF RuleRequestSound, NotEditing
<1>3. QED
  BY <1>1, <1>2, RuleStep

\* A write of one row, which is itself sound.
LEMMA RowReplaced ==
  ASSUME RuleInv, NEW id \in RuleIds, NEW row, IsRow(row), VerdictsTrue(row), row.key = versions[id].key,
         versions' = [versions EXCEPT ![id] = row]
  PROVE  /\ RowsSound'
         /\ \A i \in RuleIds : i \in RuleIds' /\ versions'[i].key = versions[i].key
<1>1. PICK S : versions \in Seq(S)
  BY DEF RuleInv, RowsSound
<1>2. versions' \in Seq(S \cup {row}) /\ DOMAIN versions' = DOMAIN versions
  BY <1>1 DEF RuleIds
<1>3. \A i \in RuleIds : versions'[i] = IF i = id THEN row ELSE versions[i]
  BY <1>1 DEF RuleIds
<1>4. QED
  BY <1>2, <1>3 DEF RuleInv, RowsSound, RuleIds

LEMMA ImportKeeps ==
  ASSUME RuleInv, NEW e \in Editors, NEW pack, NEW keys \in SUBSET RuleKeys,
         NEW doc \in [keys -> Definitions], ImportDocument(e, pack, doc)
  PROVE  RuleInv'
<1> DEFINE list == SetToSeq(DOMAIN doc)
           row(n) == Draft(list[n], pack, NextVersion(list[n]), doc[list[n]])
           rows == [n \in DOMAIN list |-> row(n)]
           request == [op |-> "insert", rows |-> rows]
<1>1. Start(e, request) /\ versions' = versions
  BY DEF ImportDocument
<1>2. IsFiniteSet(DOMAIN doc)
  BY RuleAssumption, FS_Subset
<1>3. Cardinality(DOMAIN doc) \in Nat /\ list \in [1..Cardinality(DOMAIN doc) -> DOMAIN doc]
  BY <1>2, ListOfSet
<1> HIDE DEF list
<1>4. \A n \in DOMAIN list : doc[list[n]] \in Definitions
  BY <1>3
<1>5. \A n \in DOMAIN list : IsRow(row(n)) /\ row(n).status = "none"
  BY <1>4, DraftIsRow
<1> HIDE DEF row
<1>6. rows \in Seq({row(n) : n \in DOMAIN list})
  BY <1>3
<1>7. DOMAIN rows = DOMAIN list /\ \A n \in DOMAIN rows : rows[n] = row(n)
  OBVIOUS
<1> HIDE DEF rows
<1>8. RuleRequestSound(request, versions)
  BY <1>5, <1>6, <1>7 DEF RuleRequestSound
<1> HIDE DEF request
<1>9. QED
  BY <1>1, <1>8, RuleStart

LEMMA OneRowRequestSound ==
  ASSUME NEW row, IsRow(row), row.status = "none", NEW rows
  PROVE  RuleRequestSound([op |-> "insert", rows |-> <<row>>], rows)
<1> DEFINE list == <<row>>
<1>1. (\E S : list \in Seq(S)) /\ DOMAIN list = {1} /\ list[1] = row
  BY OneRowIsList
<1> HIDE DEF list
<1>2. RuleRequestSound([op |-> "insert", rows |-> list], rows)
  BY <1>1 DEF RuleRequestSound
<1>3. QED
  BY <1>2 DEF list

LEMMA DraftsKeep ==
  ASSUME RuleInv, NEW e \in Editors,
         \/ \E pack, key : \E d \in Definitions : CreateDraft(e, pack, key, d)
         \/ BranchPublished(e)
  PROVE  RuleInv'
<1>1. ASSUME NEW pack, NEW key, NEW d \in Definitions, CreateDraft(e, pack, key, d) PROVE RuleInv'
  <2> DEFINE row == Draft(key, pack, NextVersion(key), d)
  <2>1. IsRow(row) /\ row.status = "none"
    BY DraftIsRow
  <2>2. Start(e, [op |-> "insert", rows |-> <<row>>]) /\ versions' = versions
    BY <1>1 DEF CreateDraft
  <2> HIDE DEF row
  <2>3. QED
    BY <2>1, <2>2, OneRowRequestSound, RuleStart
<1>2. ASSUME BranchPublished(e) PROVE RuleInv'
  <2> DEFINE old == versions[editing[e].id]
             row == Draft(old.key, old.pack, NextVersion(old.key), editing[e].definition)
  <2>1. editing[e].definition \in Definitions
    BY <1>2 DEF BranchPublished, RuleInv, RuleRequestsSound, RuleRequestSound
  <2>2. IsRow(row) /\ row.status = "none"
    BY <2>1, DraftIsRow
  <2>3. Step(e, [op |-> "insert", rows |-> <<row>>]) /\ versions' = versions
    BY <1>2 DEF BranchPublished
  <2> HIDE DEF row
  <2>4. QED
    BY <2>2, <2>3, OneRowRequestSound, RuleStart
<1>3. QED
  BY <1>1, <1>2

LEMMA InsertKeeps == ASSUME RuleInv, NEW e \in Editors, InsertRules(e) PROVE RuleInv'
<1> DEFINE new == editing[e].rows
<1>1. /\ \E S : new \in Seq(S)
      /\ \A n \in DOMAIN new : IsRow(new[n]) /\ new[n].status = "none"
      /\ versions' = versions \o new /\ Finish(e)
  BY DEF InsertRules, RuleInv, RuleRequestsSound, RuleRequestSound
<1> HIDE DEF new
<1>2. PICK S, T : versions \in Seq(S) /\ new \in Seq(T)
  BY <1>1 DEF RuleInv, RowsSound
<1>3. versions \in Seq(S \cup T) /\ new \in Seq(S \cup T)
  BY <1>2
<1>4. /\ versions' \in Seq(S \cup T) /\ Len(versions') = Len(versions) + Len(new)
      /\ \A i \in 1..(Len(versions) + Len(new)) :
            versions'[i] = IF i <= Len(versions) THEN versions[i] ELSE new[i - Len(versions)]
  BY <1>1, <1>3
<1>5. ASSUME NEW i \in RuleIds' PROVE IsRow(versions'[i]) /\ VerdictsTrue(versions'[i])
  <2>1. CASE i \in RuleIds
    <3>1. versions'[i] = versions[i]
      BY <1>3, <1>4, <1>5, <2>1 DEF RuleIds
    <3>2. QED
      BY <2>1, <3>1 DEF RuleInv, RowsSound
  <2>2. CASE i \notin RuleIds
    <3>1. i - Len(versions) \in DOMAIN new /\ versions'[i] = new[i - Len(versions)]
      BY <1>3, <1>4, <1>5, <2>2 DEF RuleIds
    <3>2. QED
      BY <1>1, <3>1 DEF VerdictsTrue
  <2>3. QED
    BY <2>1, <2>2
<1>6. RowsSound'
  BY <1>4, <1>5 DEF RowsSound
<1>7. \A i \in RuleIds : i \in RuleIds' /\ versions'[i].key = versions[i].key
  BY <1>3, <1>4 DEF RuleIds
<1>8. QED
  BY <1>1, <1>6, <1>7, RuleFinish

LEMMA UpdateKeeps ==
  ASSUME RuleInv, NEW e \in Editors, NEW id, NEW d \in Definitions, UpdateDraft(e, id, d)
  PROVE  RuleInv'
<1> DEFINE request == [op |-> IF versions[id].lifecycle = "published" THEN "branch" ELSE "rewrite",
                       id |-> id, definition |-> d]
<1>1. id \in RuleIds /\ Start(e, request) /\ versions' = versions
  BY DEF UpdateDraft
<1>2. RuleRequestSound(request, versions)
  BY <1>1 DEF RuleRequestSound, RuleIds
<1> HIDE DEF request
<1>3. QED
  BY <1>1, <1>2, RuleStart

LEMMA RewriteKeeps == ASSUME RuleInv, NEW e \in Editors, RewriteDraft(e) PROVE RuleInv'
<1> DEFINE id == editing[e].id
           old == versions[id]
           row == Draft(old.key, old.pack, old.version, editing[e].definition)
<1>1. id \in RuleIds /\ editing[e].definition \in Definitions
  BY DEF RewriteDraft, RuleInv, RuleRequestsSound, RuleRequestSound, RuleIds
<1>2. versions' = [versions EXCEPT ![id] = row] /\ Finish(e)
  BY DEF RewriteDraft
<1>3. IsRow(row) /\ VerdictsTrue(row) /\ row.key = versions[id].key
  BY <1>1, DraftIsRow DEF VerdictsTrue
<1> HIDE DEF id, row
<1>4. /\ RowsSound'
      /\ \A i \in RuleIds : i \in RuleIds' /\ versions'[i].key = versions[i].key
  BY <1>1, <1>2, <1>3, RowReplaced
<1>5. QED
  BY <1>2, <1>4, RuleFinish

LEMMA ValidateKeeps == ASSUME RuleInv, NEW e \in Editors, NEW id, ValidateRule(e, id) PROVE RuleInv'
<1> DEFINE row == versions[id]
           request == [op |-> "validated", id |-> id, definition |-> row.definition,
                       status |-> Validate(row.key, row.definition)]
<1>1. id \in RuleIds /\ Start(e, request) /\ versions' = versions
  BY DEF ValidateRule
<1>2. RuleRequestSound(request, versions)
  BY <1>1 DEF RuleRequestSound, RuleIds, RuleInv, RowsSound, IsRow
<1> HIDE DEF request
<1>3. QED
  BY <1>1, <1>2, RuleStart

\* One column of a row is written at a time.
LEMMA StatusIsWritten ==
  ASSUME NEW r, IsRow(r), NEW status
  PROVE  [r EXCEPT !.status = status]
           = [key |-> r.key, pack |-> r.pack, version |-> r.version, lifecycle |-> r.lifecycle,
              definition |-> r.definition, status |-> status, validated |-> r.validated]
BY DEF IsRow

LEMMA ValidatedIsWritten ==
  ASSUME NEW r, IsRow(r), NEW validated
  PROVE  [r EXCEPT !.validated = validated]
           = [key |-> r.key, pack |-> r.pack, version |-> r.version, lifecycle |-> r.lifecycle,
              definition |-> r.definition, status |-> r.status, validated |-> validated]
BY DEF IsRow

LEMMA LifecycleIsWritten ==
  ASSUME NEW r, IsRow(r), NEW lifecycle
  PROVE  [r EXCEPT !.lifecycle = lifecycle]
           = [key |-> r.key, pack |-> r.pack, version |-> r.version, lifecycle |-> lifecycle,
              definition |-> r.definition, status |-> r.status, validated |-> r.validated]
BY DEF IsRow

LEMMA VerdictIsWritten ==
  ASSUME NEW r, IsRow(r), NEW status, NEW validated, NEW lifecycle
  PROVE  [r EXCEPT !.status = status, !.validated = validated, !.lifecycle = lifecycle]
           = [key |-> r.key, pack |-> r.pack, version |-> r.version, lifecycle |-> lifecycle,
              definition |-> r.definition, status |-> status, validated |-> validated]
<1> DEFINE one == [r EXCEPT !.status = status]
           two == [one EXCEPT !.validated = validated]
<1>1. [r EXCEPT !.status = status, !.validated = validated, !.lifecycle = lifecycle]
        = [two EXCEPT !.lifecycle = lifecycle]
  OBVIOUS
<1>2. one = [key |-> r.key, pack |-> r.pack, version |-> r.version, lifecycle |-> r.lifecycle,
             definition |-> r.definition, status |-> status, validated |-> r.validated]
  BY StatusIsWritten
<1> HIDE DEF one
<1>3. IsRow(one)
  BY <1>2 DEF IsRow
<1>4. two = [key |-> r.key, pack |-> r.pack, version |-> r.version, lifecycle |-> r.lifecycle,
             definition |-> r.definition, status |-> status, validated |-> validated]
  BY <1>2, <1>3, ValidatedIsWritten
<1> HIDE DEF two
<1>5. IsRow(two)
  BY <1>4 DEF IsRow
<1>6. [two EXCEPT !.lifecycle = lifecycle]
        = [key |-> r.key, pack |-> r.pack, version |-> r.version, lifecycle |-> lifecycle,
           definition |-> r.definition, status |-> status, validated |-> validated]
  BY <1>4, <1>5, LifecycleIsWritten
<1>7. QED
  BY <1>1, <1>6

LEMMA StoreKeeps == ASSUME RuleInv, NEW e \in Editors, StoreValidation(e) PROVE RuleInv'
<1> DEFINE id == editing[e].id
           old == versions[id]
           lifecycle == CASE editing[e].status = "passed" -> "valid"
                          [] editing[e].status = "failed" -> "invalid"
                          [] OTHER -> "draft"
           row == [key |-> old.key, pack |-> old.pack, version |-> old.version, lifecycle |-> lifecycle,
                   definition |-> old.definition, status |-> editing[e].status,
                   validated |-> {editing[e].definition}]
<1>1. /\ id \in RuleIds
      /\ editing[e].status = "passed" => Validate(old.key, editing[e].definition) = "passed"
  BY DEF StoreValidation, RuleInv, RuleRequestsSound, RuleRequestSound, RuleIds
<1>2. IsRow(old)
  BY <1>1 DEF RuleInv, RowsSound
<1>3. /\ versions' = [versions EXCEPT ![id] = [@ EXCEPT !.status = editing[e].status,
                                                !.validated = {editing[e].definition},
                                                !.lifecycle = lifecycle]]
      /\ Finish(e)
  BY DEF StoreValidation
<1> HIDE DEF lifecycle
<1> HIDE DEF old
<1>4. [old EXCEPT !.status = editing[e].status, !.validated = {editing[e].definition},
                  !.lifecycle = lifecycle] = row
  <2>1. \A s, v, l : [old EXCEPT !.status = s, !.validated = v, !.lifecycle = l]
           = [key |-> old.key, pack |-> old.pack, version |-> old.version, lifecycle |-> l,
              definition |-> old.definition, status |-> s, validated |-> v]
    BY <1>2, VerdictIsWritten, Zenon
  <2>2. QED
    BY <2>1, Zenon
<1>5. versions' = [versions EXCEPT ![id] = row]
  BY <1>3, <1>4 DEF old
<1>6. IsRow(row) /\ VerdictsTrue(row) /\ row.key = versions[id].key
  BY <1>1, <1>2 DEF IsRow, VerdictsTrue, old
<1> HIDE DEF id, row
<1>7. /\ RowsSound'
      /\ \A i \in RuleIds : i \in RuleIds' /\ versions'[i].key = versions[i].key
  BY <1>1, <1>5, <1>6, RowReplaced
<1>8. QED
  BY <1>3, <1>7, RuleFinish

\* Publishing, deprecating and disabling move a row through its lifecycle and change nothing else.
LEMMA LifecycleKeeps ==
  ASSUME NEW r, IsRow(r), VerdictsTrue(r), NEW next
  PROVE  LET moved == [r EXCEPT !.lifecycle = next]
         IN  IsRow(moved) /\ VerdictsTrue(moved) /\ moved.key = r.key
<1> DEFINE moved == [key |-> r.key, pack |-> r.pack, version |-> r.version, lifecycle |-> next,
                     definition |-> r.definition, status |-> r.status, validated |-> r.validated]
<1>1. [r EXCEPT !.lifecycle = next] = moved
  BY DEF IsRow
<1>2. IsRow(moved) /\ VerdictsTrue(moved) /\ moved.key = r.key
  BY DEF IsRow, VerdictsTrue
<1>3. QED
  BY <1>1, <1>2

LEMMA PublishKeeps ==
  ASSUME RuleInv, NEW e \in Editors, (\E id : Publish(e, id)) \/ DeprecateOthers(e)
  PROVE  RuleInv'
<1>1. ASSUME NEW id, Publish(e, id) PROVE RuleInv'
  <2>1. Start(e, [op |-> "publish", id |-> id]) /\ versions' = versions
    BY <1>1 DEF Publish
  <2>2. RuleRequestSound([op |-> "publish", id |-> id], versions)
    BY DEF RuleRequestSound
  <2>3. QED
    BY <2>1, <2>2, RuleStart
<1>2. ASSUME DeprecateOthers(e) PROVE RuleInv'
  <2> DEFINE others == PublishedOf(versions[editing[e].id].key) \ {editing[e].id}
             request == [op |-> "publishing", id |-> editing[e].id, others |-> others]
  <2>1. Step(e, request) /\ versions' = versions
    BY <1>2 DEF DeprecateOthers
  <2> HIDE DEF others
  <2>2. RuleRequestSound(request, versions)
    BY DEF RuleRequestSound
  <2> HIDE DEF request
  <2>3. QED
    BY <2>1, <2>2, RuleStart
<1>3. QED
  BY <1>1, <1>2

LEMMA PublishCommitKeeps == ASSUME RuleInv, NEW e \in Editors, PublishCommit(e) PROVE RuleInv'
<1> DEFINE row(i) == IF i = editing[e].id THEN [versions[i] EXCEPT !.lifecycle = "published"]
                     ELSE IF i \in editing[e].others THEN [versions[i] EXCEPT !.lifecycle = "deprecated"]
                     ELSE versions[i]
<1>1. versions' = [i \in RuleIds |-> row(i)] /\ Finish(e)
  BY DEF PublishCommit
<1>2. ASSUME NEW i \in RuleIds PROVE IsRow(row(i)) /\ VerdictsTrue(row(i)) /\ row(i).key = versions[i].key
  <2>1. IsRow(versions[i]) /\ VerdictsTrue(versions[i])
    BY DEF RuleInv, RowsSound
  <2>2. QED
    BY <2>1, LifecycleKeeps
<1> HIDE DEF row
<1>3. PICK S : versions \in Seq(S)
  BY DEF RuleInv, RowsSound
<1>4. Len(versions) \in Nat /\ RuleIds = 1..Len(versions)
  BY <1>3 DEF RuleIds
<1>5. versions' \in Seq({row(i) : i \in RuleIds}) /\ RuleIds' = RuleIds
  BY <1>1, <1>4 DEF RuleIds
<1>6. RowsSound'
  BY <1>1, <1>2, <1>5 DEF RowsSound
<1>7. QED
  BY <1>1, <1>2, <1>5, <1>6, RuleFinish

LEMMA TransitionKeeps ==
  ASSUME RuleInv, NEW e \in Editors, NEW id, NEW next, Transition(e, id, next)
  PROVE  RuleInv'
<1> DEFINE row == [versions[id] EXCEPT !.lifecycle = next]
<1>1. /\ id \in RuleIds /\ editing' = editing /\ editing[e] = NotEditing
      /\ versions' = [versions EXCEPT ![id] = row]
  BY DEF Transition
<1>2. IsRow(row) /\ VerdictsTrue(row) /\ row.key = versions[id].key
  BY <1>1, LifecycleKeeps DEF RuleInv, RowsSound
<1> HIDE DEF row
<1>3. /\ RowsSound'
      /\ \A i \in RuleIds : i \in RuleIds' /\ versions'[i].key = versions[i].key
  BY <1>1, <1>2, RowReplaced
<1>4. editing' = [editing EXCEPT ![e] = NotEditing]
  BY <1>1 DEF RuleInv, RuleRequestsSound
<1>5. RuleRequestSound(NotEditing, versions')
  BY DEF RuleRequestSound, NotEditing
<1>6. QED
  BY <1>3, <1>4, <1>5, RuleStep

LEMMA RulesInit == RuleInit => RuleInv
<1> SUFFICES ASSUME RuleInit PROVE RuleInv
  OBVIOUS
<1>1. versions = << >> /\ versions \in Seq({}) /\ RuleIds = {}
  BY DEF RuleInit, RuleIds
<1>2. QED
  BY <1>1 DEF RuleInit, RuleInv, RowsSound, RuleRequestsSound, RuleRequestSound, NotEditing

LEMMA RulesKept == RuleInv /\ [RuleNext]_ruleVars => RuleInv'
<1> SUFFICES ASSUME RuleInv, [RuleNext]_ruleVars PROVE RuleInv'
  OBVIOUS
<1>1. ASSUME NEW e \in Editors, RuleRequestFails(e) PROVE RuleInv'
  <2>1. versions' = versions /\ Finish(e)
    BY <1>1 DEF RuleRequestFails
  <2>2. /\ RowsSound'
        /\ \A i \in RuleIds : i \in RuleIds' /\ versions'[i].key = versions[i].key
    BY <2>1 DEF RuleInv, RowsSound, RuleIds
  <2>3. QED
    BY <2>1, <2>2, RuleFinish
<1>2. CASE UNCHANGED ruleVars
  BY <1>2 DEF ruleVars, RuleInv, RowsSound, RuleRequestsSound, RuleIds
<1>3. ASSUME NEW e \in Editors, NEW pack \in Packs, NEW keys \in SUBSET RuleKeys,
             NEW doc \in [keys -> Definitions], ImportDocument(e, pack, doc)
      PROVE  RuleInv'
  BY <1>3, ImportKeeps
<1>4. ASSUME NEW e \in Editors, NEW pack \in Packs, NEW key \in RuleKeys, NEW d \in Definitions,
             CreateDraft(e, pack, key, d)
      PROVE  RuleInv'
  <2>1. \E p, k : \E c \in Definitions : CreateDraft(e, p, k, c)
    BY <1>4
  <2>2. QED
    BY <2>1, DraftsKeep
<1>5. ASSUME NEW e \in Editors, NEW id \in RuleIds, NEW d \in Definitions, UpdateDraft(e, id, d)
      PROVE  RuleInv'
  BY <1>5, UpdateKeeps
<1>6. ASSUME NEW e \in Editors, NEW id \in RuleIds, ValidateRule(e, id) \/ Publish(e, id) PROVE RuleInv'
  BY <1>6, ValidateKeeps, PublishKeeps
<1>7. ASSUME NEW e \in Editors, NEW id \in RuleIds, NEW next, Transition(e, id, next) PROVE RuleInv'
  BY <1>7, TransitionKeeps
<1>8. ASSUME NEW e \in Editors,
             InsertRules(e) \/ BranchPublished(e) \/ RewriteDraft(e) \/ StoreValidation(e)
      PROVE  RuleInv'
  BY <1>8, InsertKeeps, DraftsKeep, RewriteKeeps, StoreKeeps
<1>9. ASSUME NEW e \in Editors, DeprecateOthers(e) \/ PublishCommit(e) PROVE RuleInv'
  BY <1>9, PublishKeeps, PublishCommitKeeps
<1>10. QED
  BY <1>1, <1>2, <1>3, <1>4, <1>5, <1>6, <1>7, <1>8, <1>9 DEF RuleNext

\* However edits, validations and publications of a rule overlap, a row that may be published
\* holds its own examples: what passed validation is what the row says now.
THEOREM PublishedRulesHold == RuleSpec => []PublishableHoldsExamples
<1>1. RuleSpec => []RuleInv
  BY RulesInit, RulesKept, PTL DEF RuleSpec
<1>2. QED
  BY <1>1, SoundRowsHold, PTL
-----------------------------------------------------------------------------
(* Types of the custom rules                                               *)

\* A row that is the n-th or later of its table.
RowFits(r, n) ==
    /\ r.key \in RuleKeys /\ r.pack \in Packs /\ r.version \in 1..n /\ r.lifecycle \in Lifecycles
    /\ r.status \in Statuses /\ r.validated \subseteq Definitions

\* The rows that a request is about to insert fit behind the n that are there.
RequestFits(r, n) ==
    /\ r.op = "insert" => \A k \in DOMAIN r.rows : RowFits(r.rows[k], n + 1)
    /\ r.op = "validated" => r.status \in Statuses

RulesTyped ==
    /\ ruleOps \in 0..MaxRuleOps /\ Len(versions) <= MaxVersions
    /\ \A i \in RuleIds : RowFits(versions[i], i)
    /\ \A e \in Editors : RequestFits(editing[e], Len(versions))

LEMMA FitsFurther ==
  ASSUME NEW m \in Nat, NEW n \in Nat, m <= n
  PROVE  /\ \A r : RowFits(r, m) => RowFits(r, n)
         /\ \A r : RequestFits(r, m) => RequestFits(r, n)
<1>1. \A r : RowFits(r, m) => RowFits(r, n)
  BY DEF RowFits
<1>2. \A r : RowFits(r, m + 1) => RowFits(r, n + 1)
  BY DEF RowFits
<1>3. QED
  BY <1>1, <1>2 DEF RequestFits

\* A version is the one after the greatest of its key, of which there are no more than rows.
LEMMA NextVersionFits ==
  ASSUME RuleInv, RulesTyped, NEW key
  PROVE  NextVersion(key) \in 1..(Len(versions) + 1)
<1> DEFINE n == Len(versions)
           taken == {versions[i].version : i \in {j \in RuleIds : versions[j].key = key}}
<1>1. n \in Nat /\ n <= MaxVersions /\ RuleIds = 1..n
  BY DEF RuleInv, RowsSound, RulesTyped, RuleIds
<1>2. taken \subseteq 1..n
  <2>1. \A i \in RuleIds : versions[i].version \in 1..n
    BY <1>1 DEF RulesTyped, RowFits
  <2>2. QED
    BY <2>1
<1>3. NextVersion(key) = IF taken = {} THEN 1
                         ELSE CHOOSE v \in 2..(MaxVersions + 1) : v - 1 \in taken /\ \A m \in taken : m < v
  BY DEF NextVersion
<1> HIDE DEF n, taken
<1>4. CASE taken = {}
  BY <1>1, <1>3, <1>4 DEF n
<1>5. CASE taken # {}
  <2>0. taken \subseteq 0..n
    BY <1>2
  <2>1. PICK m \in taken : \A k \in taken : k <= m
    BY <1>1, <1>5, <2>0, GreatestOfNumbers
  <2>2. m + 1 \in 2..(MaxVersions + 1) /\ (m + 1) - 1 \in taken /\ \A k \in taken : k < m + 1
    BY <1>1, <1>2, <2>1, RuleAssumption
  <2> DEFINE P(v) == v - 1 \in taken /\ \A k \in taken : k < v
  <2>3. \E v \in 2..(MaxVersions + 1) : P(v)
    BY <2>2
  <2>4. NextVersion(key) = CHOOSE v \in 2..(MaxVersions + 1) : P(v)
    BY <1>3, <1>5
  <2>5. NextVersion(key) \in 2..(MaxVersions + 1) /\ P(NextVersion(key))
    BY <2>3, <2>4
  <2>6. QED
    BY <1>1, <1>2, <2>5, RuleAssumption DEF n
<1>6. QED
  BY <1>4, <1>5

\* A step of a request that leaves or adds rows and writes only what fits.
LEMMA TypedStep ==
  ASSUME RuleInv, RulesTyped, NEW e \in Editors, NEW request, editing' = [editing EXCEPT ![e] = request],
         \/ ruleOps' = ruleOps
         \/ ruleOps < MaxRuleOps /\ ruleOps' = ruleOps + 1,
         Len(versions') \in Nat, Len(versions) <= Len(versions'), Len(versions') <= MaxVersions,
         \A i \in RuleIds' : RowFits(versions'[i], i), RequestFits(request, Len(versions'))
  PROVE  RulesTyped'
<1>1. Len(versions) \in Nat
  BY DEF RuleInv, RowsSound
<1>2. \A f \in Editors : RequestFits(editing[f], Len(versions'))
  BY <1>1, FitsFurther DEF RulesTyped
<1>3. \A f \in Editors : editing'[f] = IF f = e THEN request ELSE editing[f]
  BY DEF RuleInv, RuleRequestsSound
<1>4. \A f \in Editors : RequestFits(editing'[f], Len(versions'))
  BY <1>2, <1>3
<1>5. ruleOps' \in 0..MaxRuleOps
  BY RuleAssumption DEF RulesTyped
<1>6. QED
  BY <1>4, <1>5 DEF RulesTyped

\* A step that writes no rows.
LEMMA TypedRequest ==
  ASSUME RuleInv, RulesTyped, NEW e \in Editors, NEW request,
         Start(e, request) \/ Step(e, request), UNCHANGED versions, RequestFits(request, Len(versions))
  PROVE  RulesTyped'
<1>1. /\ editing' = [editing EXCEPT ![e] = request] /\ versions' = versions
      /\ \/ ruleOps' = ruleOps
         \/ ruleOps < MaxRuleOps /\ ruleOps' = ruleOps + 1
  BY DEF Start, Step
<1>2. Len(versions) \in Nat
  BY DEF RuleInv, RowsSound
<1>3. /\ Len(versions') \in Nat /\ Len(versions) <= Len(versions') /\ Len(versions') <= MaxVersions
      /\ \A i \in RuleIds' : RowFits(versions'[i], i)
      /\ RequestFits(request, Len(versions'))
  BY <1>1, <1>2 DEF RulesTyped, RuleIds
<1>4. QED
  BY <1>1, <1>3, TypedStep

\* A step that writes rows where they are.
LEMMA TypedRows ==
  ASSUME RuleInv, RulesTyped, NEW e \in Editors, editing' = [editing EXCEPT ![e] = NotEditing],
         \/ ruleOps' = ruleOps
         \/ ruleOps < MaxRuleOps /\ ruleOps' = ruleOps + 1,
         versions' = [i \in RuleIds |-> versions'[i]], \A i \in RuleIds : RowFits(versions'[i], i)
  PROVE  RulesTyped'
<1>1. PICK S : versions \in Seq(S)
  BY DEF RuleInv, RowsSound
<1>2. Len(versions) \in Nat /\ RuleIds = 1..Len(versions)
  BY <1>1 DEF RuleIds
<1>3. \A f, n : n \in Nat /\ f = [i \in 1..n |-> f[i]] => DOMAIN f = 1..n /\ Len(f) = n
  <2>1. ASSUME NEW f, NEW n \in Nat, f = [i \in 1..n |-> f[i]] PROVE DOMAIN f = 1..n /\ Len(f) = n
    <3>1. DOMAIN f = 1..n
      BY <2>1
    <3>2. \A i \in 1..n : f[i] \in {f[k] : k \in 1..n}
      OBVIOUS
    <3>3. f \in [1..n -> {f[k] : k \in 1..n}]
      BY <2>1, <3>2
    <3>4. QED
      BY <3>1, <3>3
  <2>2. QED
    BY <2>1
<1>4. DOMAIN versions' = 1..Len(versions) /\ Len(versions') = Len(versions)
  BY <1>2, <1>3
<1>5. /\ Len(versions') \in Nat /\ Len(versions) <= Len(versions') /\ Len(versions') <= MaxVersions
      /\ \A i \in RuleIds' : RowFits(versions'[i], i)
  BY <1>2, <1>4 DEF RulesTyped, RuleIds
<1>6. RequestFits(NotEditing, Len(versions'))
  BY DEF RequestFits, NotEditing
<1>7. QED
  BY <1>5, <1>6, TypedStep

LEMMA DraftFits ==
  ASSUME NEW n \in Nat, NEW key \in RuleKeys, NEW pack \in Packs, NEW version \in 1..n, NEW d
  PROVE  RowFits(Draft(key, pack, version, d), n)
BY DEF RowFits, Draft, Lifecycles, Statuses

LEMMA ImportTyped ==
  ASSUME RuleInv, RulesTyped, NEW e \in Editors, NEW pack \in Packs, NEW keys \in SUBSET RuleKeys,
         NEW doc \in [keys -> Definitions], ImportDocument(e, pack, doc)
  PROVE  RulesTyped'
<1> DEFINE list == SetToSeq(DOMAIN doc)
           row(n) == Draft(list[n], pack, NextVersion(list[n]), doc[list[n]])
           rows == [n \in DOMAIN list |-> row(n)]
           request == [op |-> "insert", rows |-> rows]
<1>1. Start(e, request) /\ versions' = versions
  BY DEF ImportDocument
<1>2. IsFiniteSet(DOMAIN doc) /\ DOMAIN doc \subseteq RuleKeys
  BY RuleAssumption, FS_Subset
<1>3. Cardinality(DOMAIN doc) \in Nat /\ list \in [1..Cardinality(DOMAIN doc) -> DOMAIN doc]
  BY <1>2, ListOfSet
<1>4. Len(versions) \in Nat
  BY DEF RuleInv, RowsSound
<1> HIDE DEF list
<1>5. ASSUME NEW n \in DOMAIN list PROVE RowFits(row(n), Len(versions) + 1)
  <2>1. list[n] \in RuleKeys /\ NextVersion(list[n]) \in 1..(Len(versions) + 1)
    BY <1>2, <1>3, NextVersionFits
  <2>2. QED
    BY <1>4, <2>1, DraftFits
<1> HIDE DEF row
<1>6. RequestFits(request, Len(versions))
  BY <1>5 DEF RequestFits
<1> HIDE DEF request
<1>7. QED
  BY <1>1, <1>6, TypedRequest

LEMMA OneRowFits ==
  ASSUME NEW row, NEW n, RowFits(row, n + 1)
  PROVE  RequestFits([op |-> "insert", rows |-> <<row>>], n)
<1> DEFINE list == <<row>>
<1>1. DOMAIN list = {1} /\ list[1] = row
  BY OneRowIsList
<1> HIDE DEF list
<1>2. RequestFits([op |-> "insert", rows |-> list], n)
  BY <1>1 DEF RequestFits
<1>3. QED
  BY <1>2 DEF list

LEMMA DraftsTyped ==
  ASSUME RuleInv, RulesTyped, NEW e \in Editors,
         \/ \E pack \in Packs, key \in RuleKeys, d \in Definitions : CreateDraft(e, pack, key, d)
         \/ BranchPublished(e)
  PROVE  RulesTyped'
<1>1. Len(versions) \in Nat
  BY DEF RuleInv, RowsSound
<1>2. ASSUME NEW pack \in Packs, NEW key \in RuleKeys, NEW d \in Definitions, CreateDraft(e, pack, key, d)
      PROVE  RulesTyped'
  <2> DEFINE row == Draft(key, pack, NextVersion(key), d)
  <2>1. RowFits(row, Len(versions) + 1)
    BY <1>1, NextVersionFits, DraftFits
  <2>2. Start(e, [op |-> "insert", rows |-> <<row>>]) /\ versions' = versions
    BY <1>2 DEF CreateDraft
  <2> HIDE DEF row
  <2>3. QED
    BY <2>1, <2>2, OneRowFits, TypedRequest
<1>3. ASSUME BranchPublished(e) PROVE RulesTyped'
  <2> DEFINE old == versions[editing[e].id]
             row == Draft(old.key, old.pack, NextVersion(old.key), editing[e].definition)
  <2>1. editing[e].id \in RuleIds
    BY <1>3 DEF BranchPublished, RuleInv, RuleRequestsSound, RuleRequestSound, RuleIds
  <2>2. old.key \in RuleKeys /\ old.pack \in Packs
    BY <2>1 DEF RulesTyped, RowFits
  <2>3. RowFits(row, Len(versions) + 1)
    BY <1>1, <2>2, NextVersionFits, DraftFits
  <2>4. Step(e, [op |-> "insert", rows |-> <<row>>]) /\ versions' = versions
    BY <1>3 DEF BranchPublished
  <2> HIDE DEF row
  <2>5. QED
    BY <2>3, <2>4, OneRowFits, TypedRequest
<1>4. QED
  BY <1>2, <1>3

LEMMA VerdictIsStatus == ASSUME NEW key, NEW d PROVE Validate(key, d) \in Statuses
<1>1. \A S : StatusFromDiagnostics(S) \in Statuses
  BY DEF StatusFromDiagnostics, Statuses
<1>2. QED
  BY <1>1 DEF Validate

\* Requests that hold neither rows nor a verdict, and those that hold one.
LEMMA OtherRequestsTyped ==
  ASSUME RuleInv, RulesTyped, NEW e \in Editors,
         \/ \E id, d : UpdateDraft(e, id, d)
         \/ \E id : ValidateRule(e, id) \/ Publish(e, id)
         \/ DeprecateOthers(e)
         \/ RuleRequestFails(e)
  PROVE  RulesTyped'
<1>1. ASSUME NEW id, NEW d, UpdateDraft(e, id, d) PROVE RulesTyped'
  <2> DEFINE request == [op |-> IF versions[id].lifecycle = "published" THEN "branch" ELSE "rewrite",
                         id |-> id, definition |-> d]
  <2>1. Start(e, request) /\ versions' = versions
    BY <1>1 DEF UpdateDraft
  <2>2. RequestFits(request, Len(versions))
    BY DEF RequestFits
  <2> HIDE DEF request
  <2>3. QED
    BY <2>1, <2>2, TypedRequest
<1>2. ASSUME NEW id, ValidateRule(e, id) PROVE RulesTyped'
  <2> DEFINE verdict == Validate(versions[id].key, versions[id].definition)
             request == [op |-> "validated", id |-> id, definition |-> versions[id].definition,
                         status |-> verdict]
  <2>1. Start(e, request) /\ versions' = versions
    BY <1>2 DEF ValidateRule
  <2>2. verdict \in Statuses
    BY VerdictIsStatus
  <2> HIDE DEF verdict
  <2>3. RequestFits(request, Len(versions))
    BY <2>2 DEF RequestFits
  <2> HIDE DEF request
  <2>4. QED
    BY <2>1, <2>3, TypedRequest
<1>3. ASSUME NEW id, Publish(e, id) PROVE RulesTyped'
  <2>1. Start(e, [op |-> "publish", id |-> id]) /\ versions' = versions
    BY <1>3 DEF Publish
  <2>2. RequestFits([op |-> "publish", id |-> id], Len(versions))
    BY DEF RequestFits
  <2>3. QED
    BY <2>1, <2>2, TypedRequest
<1>4. ASSUME DeprecateOthers(e) PROVE RulesTyped'
  <2> DEFINE others == PublishedOf(versions[editing[e].id].key) \ {editing[e].id}
             request == [op |-> "publishing", id |-> editing[e].id, others |-> others]
  <2>1. Step(e, request) /\ versions' = versions
    BY <1>4 DEF DeprecateOthers
  <2> HIDE DEF others
  <2>2. RequestFits(request, Len(versions))
    BY DEF RequestFits
  <2> HIDE DEF request
  <2>3. QED
    BY <2>1, <2>2, TypedRequest
<1>5. ASSUME RuleRequestFails(e) PROVE RulesTyped'
  <2>1. Step(e, NotEditing) /\ versions' = versions
    BY <1>5 DEF RuleRequestFails, Finish
  <2>2. RequestFits(NotEditing, Len(versions))
    BY DEF RequestFits, NotEditing
  <2>3. QED
    BY <2>1, <2>2, TypedRequest
<1>6. QED
  BY <1>1, <1>2, <1>3, <1>4, <1>5

LEMMA InsertTyped == ASSUME RuleInv, RulesTyped, NEW e \in Editors, InsertRules(e) PROVE RulesTyped'
<1> DEFINE new == editing[e].rows
           n == Len(versions)
<1>1. /\ \E S : new \in Seq(S)
      /\ \A k \in DOMAIN new : RowFits(new[k], n + 1)
      /\ versions' = versions \o new /\ n + Len(new) <= MaxVersions
      /\ editing' = [editing EXCEPT ![e] = NotEditing] /\ ruleOps' = ruleOps
  BY DEF InsertRules, RuleInv, RuleRequestsSound, RuleRequestSound, RulesTyped, RequestFits, Finish, Step
<1> HIDE DEF new
<1>2. PICK S, T : versions \in Seq(S) /\ new \in Seq(T)
  BY <1>1 DEF RuleInv, RowsSound
<1>3. versions \in Seq(S \cup T) /\ new \in Seq(S \cup T) /\ n \in Nat /\ Len(new) \in Nat
  BY <1>2
<1>4. /\ Len(versions') = n + Len(new) /\ DOMAIN versions' = 1..(n + Len(new))
      /\ \A i \in 1..(n + Len(new)) : versions'[i] = IF i <= n THEN versions[i] ELSE new[i - n]
  BY <1>1, <1>3
<1>5. ASSUME NEW i \in 1..(n + Len(new)) PROVE RowFits(versions'[i], i)
  <2>1. CASE i <= n
    <3>1. i \in RuleIds /\ versions'[i] = versions[i]
      BY <1>3, <1>4, <2>1 DEF RuleIds
    <3>2. QED
      BY <3>1 DEF RulesTyped
  <2>2. CASE ~(i <= n)
    <3>1. i - n \in DOMAIN new /\ versions'[i] = new[i - n] /\ n + 1 \in Nat /\ i \in Nat /\ n + 1 <= i
      BY <1>3, <1>4, <2>2
    <3>2. RowFits(new[i - n], n + 1)
      BY <1>1, <3>1
    <3>3. QED
      BY <3>1, <3>2, FitsFurther
  <2>3. QED
    BY <2>1, <2>2
<1>6. /\ Len(versions') \in Nat /\ n <= Len(versions') /\ Len(versions') <= MaxVersions
      /\ \A i \in RuleIds' : RowFits(versions'[i], i)
  BY <1>1, <1>3, <1>4, <1>5 DEF RuleIds
<1>7. RequestFits(NotEditing, Len(versions'))
  BY DEF RequestFits, NotEditing
<1>8. QED
  BY <1>1, <1>6, <1>7, TypedStep

\* A write of one row where it is.
LEMMA OneRowTyped ==
  ASSUME RuleInv, RulesTyped, NEW e \in Editors, editing' = [editing EXCEPT ![e] = NotEditing],
         \/ ruleOps' = ruleOps
         \/ ruleOps < MaxRuleOps /\ ruleOps' = ruleOps + 1,
         NEW id \in RuleIds, NEW row, versions' = [versions EXCEPT ![id] = row], RowFits(row, id)
  PROVE  RulesTyped'
<1>1. PICK S : versions \in Seq(S)
  BY DEF RuleInv, RowsSound
<1>2. versions = [i \in RuleIds |-> versions[i]]
  BY <1>1 DEF RuleIds
<1>3. \A i \in RuleIds : versions'[i] = IF i = id THEN row ELSE versions[i]
  BY <1>2
<1>4. versions' = [i \in RuleIds |-> versions'[i]]
  BY <1>2
<1>5. \A i \in RuleIds : RowFits(versions'[i], i)
  BY <1>3 DEF RulesTyped
<1>6. QED
  BY <1>4, <1>5, TypedRows

LEMMA RowsWrittenTyped ==
  ASSUME RuleInv, RulesTyped, NEW e \in Editors,
         \/ RewriteDraft(e) \/ StoreValidation(e) \/ PublishCommit(e)
         \/ \E id : \E next \in {"disabled", "deprecated"} : Transition(e, id, next)
  PROVE  RulesTyped'
<1>1. \A i \in RuleIds : i \in Nat /\ RowFits(versions[i], i) /\ IsRow(versions[i])
  <2>1. PICK S : versions \in Seq(S)
    BY DEF RuleInv, RowsSound
  <2>2. QED
    BY <2>1 DEF RuleInv, RowsSound, RulesTyped, RuleIds
<1>2. ASSUME NEW i \in RuleIds, NEW next \in Lifecycles PROVE RowFits([versions[i] EXCEPT !.lifecycle = next], i)
  <2> DEFINE r == versions[i]
  <2>1. [r EXCEPT !.lifecycle = next]
          = [key |-> r.key, pack |-> r.pack, version |-> r.version, lifecycle |-> next,
             definition |-> r.definition, status |-> r.status, validated |-> r.validated]
    BY <1>1, LifecycleIsWritten
  <2>2. RowFits(r, i)
    BY <1>1
  <2> HIDE DEF r
  <2>3. RowFits([r EXCEPT !.lifecycle = next], i)
    BY <2>1, <2>2 DEF RowFits
  <2>4. QED
    BY <2>3 DEF r
<1>3. ASSUME RewriteDraft(e) PROVE RulesTyped'
  <2> DEFINE id == editing[e].id
             row == Draft(versions[id].key, versions[id].pack, versions[id].version, editing[e].definition)
  <2>1. id \in RuleIds
    BY <1>3 DEF RewriteDraft, RuleInv, RuleRequestsSound, RuleRequestSound, RuleIds
  <2>2. /\ versions' = [versions EXCEPT ![id] = row]
        /\ editing' = [editing EXCEPT ![e] = NotEditing] /\ ruleOps' = ruleOps
    BY <1>3 DEF RewriteDraft, Finish, Step
  <2>3. RowFits(row, id)
    BY <1>1, <2>1, DraftFits DEF RowFits
  <2> HIDE DEF id, row
  <2>4. QED
    BY <2>1, <2>2, <2>3, OneRowTyped
<1>4. ASSUME StoreValidation(e) PROVE RulesTyped'
  <2> DEFINE id == editing[e].id
             r == versions[id]
             status == editing[e].status
             validated == {editing[e].definition}
             lifecycle == CASE status = "passed" -> "valid" [] status = "failed" -> "invalid" [] OTHER -> "draft"
             row == [r EXCEPT !.status = status, !.validated = validated, !.lifecycle = lifecycle]
  <2>1. id \in RuleIds /\ validated \subseteq Definitions
    BY <1>4 DEF StoreValidation, RuleInv, RuleRequestsSound, RuleRequestSound, RuleIds
  <2>2. status \in Statuses
    BY <1>4 DEF StoreValidation, RulesTyped, RequestFits
  <2>3. lifecycle \in Lifecycles
    BY DEF Lifecycles
  <2>4. /\ versions' = [versions EXCEPT ![id] = row]
        /\ editing' = [editing EXCEPT ![e] = NotEditing] /\ ruleOps' = ruleOps
    BY <1>4 DEF StoreValidation, Finish, Step
  <2>5. RowFits(r, id) /\ IsRow(r)
    BY <1>1, <2>1
  <2> HIDE DEF r, status, validated, lifecycle
  <2>6. row = [key |-> r.key, pack |-> r.pack, version |-> r.version, lifecycle |-> lifecycle,
               definition |-> r.definition, status |-> status, validated |-> validated]
    BY <2>5, VerdictIsWritten
  <2> HIDE DEF id, row
  <2>7. RowFits(row, id)
    BY <2>1, <2>2, <2>3, <2>5, <2>6 DEF RowFits
  <2>8. QED
    BY <2>1, <2>4, <2>7, OneRowTyped
<1>5. ASSUME PublishCommit(e) PROVE RulesTyped'
  <2> DEFINE row(i) == IF i = editing[e].id THEN [versions[i] EXCEPT !.lifecycle = "published"]
                       ELSE IF i \in editing[e].others THEN [versions[i] EXCEPT !.lifecycle = "deprecated"]
                       ELSE versions[i]
  <2>1. /\ versions' = [i \in RuleIds |-> row(i)]
        /\ editing' = [editing EXCEPT ![e] = NotEditing] /\ ruleOps' = ruleOps
    BY <1>5 DEF PublishCommit, Finish, Step
  <2>2. \A i \in RuleIds : RowFits(row(i), i)
    BY <1>1, <1>2 DEF Lifecycles
  <2> HIDE DEF row
  <2>3. versions' = [i \in RuleIds |-> versions'[i]] /\ \A i \in RuleIds : RowFits(versions'[i], i)
    BY <2>1, <2>2
  <2>4. QED
    BY <2>1, <2>3, TypedRows
<1>6. ASSUME NEW id, NEW next \in {"disabled", "deprecated"}, Transition(e, id, next) PROVE RulesTyped'
  <2> DEFINE row == [versions[id] EXCEPT !.lifecycle = next]
  <2>1. /\ id \in RuleIds /\ versions' = [versions EXCEPT ![id] = row]
        /\ editing' = editing /\ editing[e] = NotEditing /\ ruleOps < MaxRuleOps /\ ruleOps' = ruleOps + 1
    BY <1>6 DEF Transition
  <2>2. editing' = [editing EXCEPT ![e] = NotEditing]
    BY <2>1 DEF RuleInv, RuleRequestsSound
  <2>3. RowFits(row, id)
    BY <1>2, <2>1 DEF Lifecycles
  <2> HIDE DEF row
  <2>4. QED
    BY <2>1, <2>2, <2>3, OneRowTyped
<1>7. QED
  BY <1>3, <1>4, <1>5, <1>6

LEMMA RulesStayTyped == RuleInv /\ RulesTyped /\ [RuleNext]_ruleVars => RulesTyped'
<1> SUFFICES ASSUME RuleInv, RulesTyped, [RuleNext]_ruleVars PROVE RulesTyped'
  OBVIOUS
<1>1. CASE UNCHANGED ruleVars
  BY <1>1 DEF ruleVars, RulesTyped, RuleIds
<1>2. ASSUME NEW e \in Editors, NEW pack \in Packs, NEW keys \in SUBSET RuleKeys,
             NEW doc \in [keys -> Definitions], ImportDocument(e, pack, doc)
      PROVE  RulesTyped'
  BY <1>2, ImportTyped
<1>3. ASSUME NEW e \in Editors, NEW pack \in Packs, NEW key \in RuleKeys, NEW d \in Definitions,
             CreateDraft(e, pack, key, d)
      PROVE  RulesTyped'
  BY <1>3, DraftsTyped
<1>4. ASSUME NEW e \in Editors, NEW id \in RuleIds, NEW d \in Definitions, UpdateDraft(e, id, d)
      PROVE  RulesTyped'
  BY <1>4, OtherRequestsTyped
<1>5. ASSUME NEW e \in Editors, NEW id \in RuleIds, ValidateRule(e, id) \/ Publish(e, id) PROVE RulesTyped'
  BY <1>5, OtherRequestsTyped
<1>6. ASSUME NEW e \in Editors, NEW id \in RuleIds, NEW next \in {"disabled", "deprecated"},
             Transition(e, id, next)
      PROVE  RulesTyped'
  BY <1>6, RowsWrittenTyped
<1>7. ASSUME NEW e \in Editors, BranchPublished(e) \/ DeprecateOthers(e) \/ RuleRequestFails(e) PROVE RulesTyped'
  BY <1>7, DraftsTyped, OtherRequestsTyped
<1>8. ASSUME NEW e \in Editors,
             InsertRules(e) \/ RewriteDraft(e) \/ StoreValidation(e) \/ PublishCommit(e)
      PROVE  RulesTyped'
  BY <1>8, InsertTyped, RowsWrittenTyped
<1>9. QED
  BY <1>1, <1>2, <1>3, <1>4, <1>5, <1>6, <1>7, <1>8 DEF RuleNext

\* Custom rules stay well typed, however requests overlap that have read a last version, a row or
\* a verdict: a version is never greater than the number of rows, and no row has an unknown state.
THEOREM RulesStayInOrder == RuleSpec => []RuleTypeOK
<1>1. RuleInit => RulesTyped
  <2> SUFFICES ASSUME RuleInit PROVE RulesTyped
    OBVIOUS
  <2>1. versions = << >> /\ RuleIds = {} /\ Len(versions) = 0 /\ ruleOps = 0
    BY DEF RuleInit, RuleIds
  <2>2. \A e \in Editors : RequestFits(editing[e], 0)
    BY DEF RuleInit, RequestFits, NotEditing
  <2>3. QED
    BY <2>1, <2>2, RuleAssumption DEF RulesTyped
<1>2. RuleInv /\ RulesTyped => RuleTypeOK
  <2> SUFFICES ASSUME RuleInv, RulesTyped, NEW i \in RuleIds
               PROVE  /\ versions[i].version \in 1..MaxVersions /\ versions[i].definition \in Definitions
                      /\ RowFits(versions[i], i)
    BY DEF RulesTyped, RuleTypeOK, RowFits
  <2>1. PICK S : versions \in Seq(S)
    BY DEF RuleInv, RowsSound
  <2>2. i \in Nat /\ i <= MaxVersions
    BY <2>1, RuleAssumption DEF RuleIds, RulesTyped
  <2>3. RowFits(versions[i], i) /\ IsRow(versions[i])
    BY DEF RulesTyped, RuleInv, RowsSound
  <2>4. QED
    BY <2>2, <2>3, RuleAssumption DEF RowFits, IsRow
<1>3. QED
  BY <1>1, <1>2, RulesInit, RulesKept, RulesStayTyped, PTL DEF RuleSpec

-----------------------------------------------------------------------------
(* Quality profiles                                                        *)

\* The rows of a table that are there.
Ids(rows) == {p \in DOMAIN rows : rows[p] # Gone}

IsProfile(r, ids) ==
    /\ r = Profile(r.name, r.language, r.parent, r.isDefault, r.isBuiltin)
    /\ r.language \in Languages /\ r.parent \in ids \cup {Root}

ProfileRowsSound ==
    /\ \E S : profiles \in Seq(S)
    /\ \E S : activations \in Seq(S)
    /\ Len(activations) = Len(profiles)
    /\ \A p \in ProfileIds : IsProfile(profiles[p], ProfileIds)

\* A project's profile is there, and of the language it is used for.
AssignmentsSound ==
    /\ projectProfiles = [x \in Projects \X Languages |-> projectProfiles[x]]
    /\ \A x \in DOMAIN projectProfiles : projectProfiles[x] # Root =>
         projectProfiles[x] \in ProfileIds /\ profiles[projectProfiles[x]].language = x[2]

\* What a request holds between its statements, against the tables as they are by then.
ProfileRequestSound(r, rows, rules) ==
    /\ r.op \in {"create", "copy"} =>
         /\ r.row = Profile(r.row.name, r.row.language, r.row.parent, r.row.isDefault, r.row.isBuiltin)
         /\ r.row.language \in Languages
    /\ r.op = "assign" => /\ r.project \in Projects /\ r.language \in Languages
                          /\ r.profile \in Ids(rows) => rows[r.profile].language = r.language
                          /\ r.profile \in DOMAIN rows
    /\ r.op \in {"copied", "copying"} => r.profile \in DOMAIN rows
    /\ r.op = "copying" => /\ r = [op |-> "copying", profile |-> r.profile, rules |-> r.rules, left |-> r.left]
                           /\ r.profile \in Ids(rows) => DOMAIN r.rules \subseteq r.left \cup DOMAIN rules[r.profile]

ProfileRequestsSound ==
    /\ acting = [u \in Stewards |-> acting[u]]
    /\ \A u \in Stewards : ProfileRequestSound(acting[u], profiles, activations)

ProfileInv == ProfileRowsSound /\ AssignmentsSound /\ ProfileRequestsSound

\* Ids are not used again, a profile keeps its language, and the rules it mentions.
ProfilesGo ==
    /\ DOMAIN profiles \subseteq DOMAIN profiles'
    /\ \A p \in DOMAIN profiles : p \in Ids(profiles') =>
         /\ p \in ProfileIds /\ profiles'[p].language = profiles[p].language
         /\ DOMAIN activations[p] \subseteq DOMAIN activations'[p]

LEMMA RequestsOutlast ==
  ASSUME NEW r, ProfileRequestSound(r, profiles, activations), ProfilesGo
  PROVE  ProfileRequestSound(r, profiles', activations')
BY DEF ProfileRequestSound, ProfilesGo, ProfileIds, Ids

\* The request of one steward goes on, those of the others outlast it.
LEMMA ProfileRequestReplaced ==
  ASSUME ProfileInv, ProfilesGo, NEW u \in Stewards, NEW request, acting' = [acting EXCEPT ![u] = request],
         ProfileRequestSound(request, profiles', activations')
  PROVE  ProfileRequestsSound'
<1>1. acting' = [v \in Stewards |-> IF v = u THEN request ELSE acting[v]]
  BY DEF ProfileInv, ProfileRequestsSound
<1>2. \A v \in Stewards : ProfileRequestSound(acting'[v], profiles', activations')
  BY <1>1, RequestsOutlast DEF ProfileInv, ProfileRequestsSound
<1>3. QED
  BY <1>1, <1>2 DEF ProfileRequestsSound

LEMMA RowIsNotGone == \A r, ids : IsProfile(r, ids) => r # Gone
BY DEF IsProfile, Profile, Gone

LEMMA ProfilesAtFirst == ProfileInit => ProfileInv
<1> SUFFICES ASSUME ProfileInit PROVE ProfileInv
  OBVIOUS
<1> DEFINE n == Cardinality(Languages)
           Row(k) == Profile("Ollanta Way", SetToSeq(Languages)[k], Root, TRUE, TRUE)
<1>1. n \in Nat /\ \A k \in 1..n : SetToSeq(Languages)[k] \in Languages
  BY ProfileAssumption, ListOfSet
<1>2. profiles = [k \in 1..n |-> Row(k)] /\ activations = [k \in 1..n |-> <<>>]
  BY DEF ProfileInit
<1>3. \A k \in 1..n : IsProfile(Row(k), ProfileIds)
  BY <1>1 DEF IsProfile, Profile
<1> HIDE DEF Row
<1>4. profiles \in Seq({Row(k) : k \in 1..n}) /\ activations \in Seq({<<>>})
      /\ Len(profiles) = n /\ Len(activations) = n
  BY <1>1, <1>2
<1>5. ProfileRowsSound
  BY <1>2, <1>3, <1>4 DEF ProfileRowsSound, ProfileIds
<1>6. AssignmentsSound /\ ProfileRequestsSound
  BY DEF ProfileInit, AssignmentsSound, ProfileRequestsSound, ProfileRequestSound, Unoccupied
<1>7. QED
  BY <1>5, <1>6 DEF ProfileInv

\* A new row is put behind the others.
LEMMA RowInserted ==
  ASSUME ProfileInv, NEW row, InsertRow(row), row.language \in Languages,
         row = Profile(row.name, row.language, row.parent, row.isDefault, row.isBuiltin)
  PROVE  ProfileRowsSound' /\ AssignmentsSound' /\ ProfilesGo /\ Len(profiles) + 1 \in DOMAIN profiles'
<1> DEFINE n == Len(profiles)
<1>1. PICK S : profiles \in Seq(S)
  BY DEF ProfileInv, ProfileRowsSound
<1>2. PICK T : activations \in Seq(T)
  BY DEF ProfileInv, ProfileRowsSound
<1>3. profiles' = Append(profiles, row) /\ activations' = Append(activations, <<>>) /\ projectProfiles' = projectProfiles
      /\ ParentPresent(row.parent)
  BY DEF InsertRow
<1>4. n \in Nat /\ Len(activations) = n /\ DOMAIN profiles = 1..n /\ DOMAIN activations = 1..n
  BY <1>1, <1>2 DEF ProfileInv, ProfileRowsSound
<1>5. /\ profiles \in Seq(S \cup {row}) /\ row \in S \cup {row}
      /\ activations \in Seq(T \cup {<<>>}) /\ <<>> \in T \cup {<<>>}
  BY <1>1, <1>2
<1>6. /\ profiles' \in Seq(S \cup {row}) /\ Len(profiles') = n + 1 /\ DOMAIN profiles' = 1..(n + 1)
      /\ profiles'[n + 1] = row /\ \A p \in 1..n : profiles'[p] = profiles[p]
  BY <1>3, <1>4, <1>5
<1>7. /\ activations' \in Seq(T \cup {<<>>}) /\ Len(activations') = n + 1
      /\ \A p \in 1..n : activations'[p] = activations[p]
  BY <1>3, <1>4, <1>5
<1>8. row.parent \in ProfileIds \cup {Root}
  BY <1>3 DEF ParentPresent
<1>9. \A p \in 1..n : p \in ProfileIds' <=> p \in ProfileIds
  BY <1>4, <1>6 DEF ProfileIds
<1>10. ProfileIds \subseteq ProfileIds'
  BY <1>4, <1>9 DEF ProfileIds
<1>11. ASSUME NEW p \in ProfileIds' PROVE IsProfile(profiles'[p], ProfileIds')
  <2>1. CASE p = n + 1
    BY <1>6, <1>8, <1>10, <2>1 DEF IsProfile
  <2>2. CASE p \in 1..n
    BY <1>6, <1>9, <1>10, <2>2 DEF IsProfile, ProfileInv, ProfileRowsSound
  <2>3. QED
    BY <1>4, <1>6, <2>1, <2>2 DEF ProfileIds
<1>12. ProfileRowsSound'
  BY <1>6, <1>7, <1>11 DEF ProfileRowsSound
<1>13. AssignmentsSound'
  BY <1>3, <1>4, <1>6, <1>10 DEF ProfileInv, AssignmentsSound, ProfileIds
<1>14. ProfilesGo
  BY <1>4, <1>6, <1>7 DEF ProfilesGo, Ids, ProfileIds
<1>15. QED
  BY <1>4, <1>6, <1>12, <1>13, <1>14

\* Rows are rewritten where they are: one that is there keeps its language, and its new parent is there.
LEMMA RowsRewritten ==
  ASSUME ProfileInv, NEW rows, profiles' = [p \in DOMAIN profiles |-> rows[p]],
         \A p \in DOMAIN profiles : rows[p] # Gone =>
            /\ profiles[p] # Gone /\ IsProfile(rows[p], {q \in DOMAIN profiles : rows[q] # Gone})
            /\ rows[p].language = profiles[p].language
  PROVE  /\ \E S : profiles' \in Seq(S)
         /\ Len(profiles') = Len(profiles) /\ DOMAIN profiles' = DOMAIN profiles
         /\ \A p \in ProfileIds' : IsProfile(profiles'[p], ProfileIds')
         /\ \A p \in DOMAIN profiles : p \in Ids(profiles') => p \in ProfileIds /\ profiles'[p].language = profiles[p].language
<1> DEFINE n == Len(profiles)
<1>1. n \in Nat /\ DOMAIN profiles = 1..n
  BY DEF ProfileInv, ProfileRowsSound
<1>2. profiles' \in Seq({rows[p] : p \in 1..n}) /\ Len(profiles') = n /\ DOMAIN profiles' = 1..n
  BY <1>1
<1>3. ProfileIds' = {q \in DOMAIN profiles : rows[q] # Gone}
  BY <1>1, <1>2 DEF ProfileIds
<1>4. \A p \in ProfileIds' : IsProfile(profiles'[p], ProfileIds')
  BY <1>3
<1>5. QED
  BY <1>1, <1>2, <1>3, <1>4 DEF ProfileIds, Ids

\* Where every profile stays, nothing else that refers to one is disturbed.
LEMMA RowsKept ==
  ASSUME ProfileInv, NEW rows, profiles' = [p \in DOMAIN profiles |-> rows[p]], UNCHANGED <<activations, projectProfiles>>,
         \A p \in DOMAIN profiles : rows[p] # Gone => p \in ProfileIds,
         \A p \in ProfileIds : rows[p] # Gone /\ IsProfile(rows[p], ProfileIds) /\ rows[p].language = profiles[p].language
  PROVE  ProfileRowsSound' /\ AssignmentsSound' /\ ProfilesGo
<1>1. {q \in DOMAIN profiles : rows[q] # Gone} = ProfileIds
  BY DEF ProfileIds
<1>2. /\ \E S : profiles' \in Seq(S)
      /\ Len(profiles') = Len(profiles) /\ DOMAIN profiles' = DOMAIN profiles
      /\ \A p \in ProfileIds' : IsProfile(profiles'[p], ProfileIds')
      /\ \A p \in DOMAIN profiles : p \in Ids(profiles') => p \in ProfileIds /\ profiles'[p].language = profiles[p].language
  <2>1. \A p \in DOMAIN profiles : rows[p] # Gone =>
           /\ profiles[p] # Gone /\ IsProfile(rows[p], {q \in DOMAIN profiles : rows[q] # Gone})
           /\ rows[p].language = profiles[p].language
    BY <1>1 DEF ProfileIds
  <2>2. QED
    BY <2>1, RowsRewritten
<1>3. ProfileIds' = ProfileIds
  BY <1>1 DEF ProfileIds
<1>4. ProfileRowsSound' /\ ProfilesGo
  BY <1>2 DEF ProfileRowsSound, ProfilesGo, ProfileInv
<1>5. \A p \in ProfileIds : profiles'[p].language = profiles[p].language
  BY <1>2, <1>3 DEF ProfileIds, Ids
<1>6. AssignmentsSound'
  BY <1>3, <1>5 DEF AssignmentsSound, ProfileInv
<1>7. QED
  BY <1>4, <1>6

\* A profile is renamed, moved below another parent, or becomes a default.
LEMMA ProfileUpdated ==
  ASSUME ProfileInv, NEW u \in Stewards, UpdateRow(u)
  PROVE  ProfileRowsSound' /\ AssignmentsSound' /\ ProfilesGo
<1> DEFINE new == acting[u]
           at == new.profile
           Row == Profile(new.name, profiles[at].language, new.parent, new.isDefault, profiles[at].isBuiltin)
           rows == [p \in DOMAIN profiles |-> IF p = at THEN Row ELSE profiles[p]]
<1>1. /\ at \in ProfileIds /\ new.parent \in ProfileIds \cup {Root}
      /\ profiles' = [profiles EXCEPT ![at] = Row]
      /\ UNCHANGED <<activations, projectProfiles>>
  BY DEF UpdateRow, ParentPresent
<1>2. profiles' = [p \in DOMAIN profiles |-> rows[p]]
  BY <1>1
<1>3. Row # Gone /\ Row.language = profiles[at].language /\ IsProfile(Row, ProfileIds)
  BY <1>1 DEF Profile, Gone, IsProfile, ProfileInv, ProfileRowsSound
<1> HIDE DEF Row, at
<1>4. \A p \in ProfileIds : rows[p] # Gone /\ IsProfile(rows[p], ProfileIds) /\ rows[p].language = profiles[p].language
  BY <1>3 DEF ProfileInv, ProfileRowsSound, ProfileIds
<1>5. \A p \in DOMAIN profiles : rows[p] # Gone => p \in ProfileIds
  BY <1>1 DEF ProfileIds
<1> HIDE DEF rows
<1>6. QED
  BY <1>1, <1>2, <1>4, <1>5, RowsKept

\* What refers to a profile that is deleted is turned away from it.
LEMMA ProfileDeleted ==
  ASSUME ProfileInv, NEW d \in ProfileIds, DeleteProfile(d)
  PROVE  ProfileRowsSound' /\ AssignmentsSound' /\ ProfilesGo
<1> DEFINE rows == [q \in DOMAIN profiles |->
                      IF q = d THEN Gone
                      ELSE IF profiles[q] # Gone /\ profiles[q].parent = d THEN [profiles[q] EXCEPT !.parent = Root]
                      ELSE profiles[q]]
           Left == ProfileIds \ {d}
<1>1. /\ profiles' = [q \in DOMAIN profiles |-> rows[q]]
      /\ activations' = [activations EXCEPT ![d] = <<>>]
      /\ projectProfiles' = [x \in DOMAIN projectProfiles |-> IF projectProfiles[x] = d THEN Root ELSE projectProfiles[x]]
  BY DEF DeleteProfile
<1>2. ASSUME NEW q \in Left
      PROVE  rows[q] # Gone /\ IsProfile(rows[q], Left) /\ rows[q].language = profiles[q].language
  <2>1. IsProfile(profiles[q], ProfileIds) /\ q \in DOMAIN profiles /\ q \in ProfileIds /\ q # d /\ profiles[q] # Gone
    BY DEF ProfileInv, ProfileRowsSound, ProfileIds
  <2>2. CASE profiles[q].parent = d
    <3>1. rows[q] = [profiles[q] EXCEPT !.parent = Root]
      BY <2>1, <2>2
    <3>2. [profiles[q] EXCEPT !.parent = Root]
             = Profile(profiles[q].name, profiles[q].language, Root, profiles[q].isDefault, profiles[q].isBuiltin)
      BY <2>1 DEF IsProfile, Profile
    <3>3. IsProfile(rows[q], Left) /\ rows[q].language = profiles[q].language
      BY <2>1, <3>1, <3>2 DEF IsProfile, Profile
    <3>4. QED
      BY <3>3, RowIsNotGone
  <2>3. CASE profiles[q].parent # d
    <3>1. rows[q] = profiles[q]
      BY <2>1, <2>3
    <3>2. QED
      BY <2>1, <2>3, <3>1 DEF IsProfile
  <2>4. QED
    BY <2>2, <2>3
<1>3. {q \in DOMAIN profiles : rows[q] # Gone} = Left
  BY <1>2 DEF ProfileIds
<1> HIDE DEF rows
<1>4. \A q \in DOMAIN profiles : rows[q] # Gone => q \in Left /\ profiles[q] # Gone
  BY <1>3 DEF ProfileIds
<1>5. /\ \E S : profiles' \in Seq(S)
      /\ Len(profiles') = Len(profiles) /\ DOMAIN profiles' = DOMAIN profiles
      /\ \A p \in ProfileIds' : IsProfile(profiles'[p], ProfileIds')
      /\ \A p \in DOMAIN profiles : p \in Ids(profiles') => p \in ProfileIds /\ profiles'[p].language = profiles[p].language
  BY <1>1, <1>2, <1>3, <1>4, RowsRewritten
<1>6. ProfileIds' = Left
  BY <1>1, <1>3 DEF ProfileIds
<1>7. (\E T : activations' \in Seq(T)) /\ Len(activations') = Len(profiles')
      /\ \A p \in DOMAIN profiles \ {d} : activations'[p] = activations[p]
  <2>1. PICK T : activations \in Seq(T)
    BY DEF ProfileInv, ProfileRowsSound
  <2> DEFINE n == Len(profiles)
  <2>2. n \in Nat /\ Len(activations) = n /\ DOMAIN profiles = 1..n /\ DOMAIN activations = 1..n
    BY <2>1 DEF ProfileInv, ProfileRowsSound
  <2>3. activations' = [p \in 1..n |-> IF p = d THEN <<>> ELSE activations[p]]
    BY <1>1, <2>2
  <2>4. \A p \in 1..n : activations[p] \in T
    BY <2>1, <2>2
  <2> HIDE DEF n
  <2>5. activations' \in Seq(T \cup {<<>>}) /\ Len(activations') = n
    BY <2>2, <2>3, <2>4
  <2>6. QED
    BY <1>5, <2>2, <2>3, <2>5 DEF n
<1>8. ProfileRowsSound'
  BY <1>5, <1>7 DEF ProfileRowsSound
<1>9. ProfilesGo
  <2>1. \A p \in DOMAIN profiles : p \in Ids(profiles') => p # d
    BY <1>6 DEF Ids, ProfileIds
  <2>2. QED
    BY <1>5, <1>7, <2>1 DEF ProfilesGo
<1>10. AssignmentsSound'
  <2>1. \A p \in Left : profiles'[p].language = profiles[p].language
    BY <1>5, <1>6 DEF ProfileIds, Ids
  <2>2. /\ DOMAIN projectProfiles = Projects \X Languages
        /\ \A x \in DOMAIN projectProfiles : projectProfiles[x] # Root =>
             projectProfiles[x] \in ProfileIds /\ profiles[projectProfiles[x]].language = x[2]
    BY DEF ProfileInv, AssignmentsSound
  <2>3. projectProfiles' = [x \in Projects \X Languages |-> projectProfiles'[x]]
    BY <1>1, <2>2
  <2>4. ASSUME NEW x \in DOMAIN projectProfiles', projectProfiles'[x] # Root
        PROVE  projectProfiles'[x] \in ProfileIds' /\ profiles'[projectProfiles'[x]].language = x[2]
    <3>1. x \in DOMAIN projectProfiles /\ projectProfiles'[x] = projectProfiles[x] /\ projectProfiles[x] # d
      BY <1>1, <2>4
    <3>2. projectProfiles[x] \in Left /\ profiles[projectProfiles[x]].language = x[2]
      BY <2>2, <2>4, <3>1
    <3>3. QED
      BY <1>6, <2>1, <3>1, <3>2
  <2>5. QED
    BY <2>3, <2>4 DEF AssignmentsSound
<1>11. QED
  BY <1>8, <1>9, <1>10

\* The default of a language is set anew in all its rows.
LEMMA DefaultSet ==
  ASSUME ProfileInv, NEW u \in Stewards, SetDefaultRow(u)
  PROVE  ProfileRowsSound' /\ AssignmentsSound' /\ ProfilesGo
<1> DEFINE rows == [p \in DOMAIN profiles |->
                      IF profiles[p] # Gone /\ profiles[p].language = acting[u].language
                      THEN [profiles[p] EXCEPT !.isDefault = (p = acting[u].profile)] ELSE profiles[p]]
<1>1. profiles' = [p \in DOMAIN profiles |-> rows[p]] /\ UNCHANGED <<activations, projectProfiles>>
  BY DEF SetDefaultRow
<1>2. ASSUME NEW p \in ProfileIds
      PROVE  rows[p] # Gone /\ IsProfile(rows[p], ProfileIds) /\ rows[p].language = profiles[p].language
  <2>1. IsProfile(profiles[p], ProfileIds) /\ p \in DOMAIN profiles /\ profiles[p] # Gone
    BY DEF ProfileInv, ProfileRowsSound, ProfileIds
  <2>2. CASE profiles[p].language = acting[u].language
    <3> DEFINE b == (p = acting[u].profile)
    <3>1. rows[p] = [profiles[p] EXCEPT !.isDefault = b]
      BY <2>1, <2>2
    <3> HIDE DEF b
    <3>2. [profiles[p] EXCEPT !.isDefault = b]
             = Profile(profiles[p].name, profiles[p].language, profiles[p].parent, b, profiles[p].isBuiltin)
      BY <2>1 DEF IsProfile, Profile
    <3>3. IsProfile(rows[p], ProfileIds) /\ rows[p].language = profiles[p].language
      BY <2>1, <3>1, <3>2 DEF IsProfile, Profile
    <3>4. QED
      BY <3>3, RowIsNotGone
  <2>3. CASE profiles[p].language # acting[u].language
    <3>1. rows[p] = profiles[p]
      BY <2>1, <2>3
    <3>2. QED
      BY <2>1, <3>1
  <2>4. QED
    BY <2>2, <2>3
<1>3. \A p \in DOMAIN profiles : rows[p] # Gone => p \in ProfileIds
  BY DEF ProfileIds
<1> HIDE DEF rows
<1>4. QED
  BY <1>1, <1>2, <1>3, RowsKept

LEMMA ListIsSequence ==
  ASSUME NEW S, NEW n \in Nat, NEW f, f = [i \in 1..n |-> f[i]], \A i \in 1..n : f[i] \in S
  PROVE  f \in Seq(S) /\ Len(f) = n
<1>1. f \in [1..n -> S]
  OBVIOUS
<1>2. QED
  BY <1>1

LEMMA FlagsAreSet ==
  ASSUME NEW r, r = Profile(r.name, r.language, r.parent, r.isDefault, r.isBuiltin), NEW builtin, NEW default
  PROVE  [r EXCEPT !.isBuiltin = builtin, !.isDefault = default] = Profile(r.name, r.language, r.parent, default, builtin)
<1> DEFINE r1 == [r EXCEPT !.isBuiltin = builtin]
<1>1. r1 = Profile(r.name, r.language, r.parent, r.isDefault, builtin)
  BY DEF Profile
<1>2. [r EXCEPT !.isBuiltin = builtin, !.isDefault = default] = [r1 EXCEPT !.isDefault = default]
  OBVIOUS
<1> HIDE DEF r1
<1>3. [r1 EXCEPT !.isDefault = default] = Profile(r.name, r.language, r.parent, default, builtin)
  BY <1>1 DEF Profile
<1>4. QED
  BY <1>2, <1>3

\* Start-up puts the missing built-in profiles behind the others, and only adds rules.
LEMMA ProfilesSynced ==
  ASSUME ProfileInv, SyncBuiltInProfiles
  PROVE  ProfileRowsSound' /\ AssignmentsSound' /\ ProfilesGo
<1> DEFINE n == Len(profiles)
           wanted == {l \in Languages : ~NameTaken("Ollanta Way", l, Root)}
           missing == SetToSeq(wanted)
           m == Cardinality(wanted)
           Row(l) == Profile("Ollanta Way", l, Root, TRUE, TRUE)
           Builtin(p) == profiles[p].isBuiltin \/ profiles[p].name = "Ollanta Way"
           Default(p) == DefaultAfterSync(profiles[p].language, p)
           kept == [p \in DOMAIN profiles |-> IF profiles[p] = Gone THEN Gone
                      ELSE [profiles[p] EXCEPT !.isBuiltin = @ \/ profiles[p].name = "Ollanta Way", !.isDefault = Default(p)]]
           added == [k \in DOMAIN missing |-> Row(missing[k])]
           Bundled(l) == [r \in {s \in BundledRules : RuleLanguage[s] = l} |-> DefaultSeverity]
           Old(p) == IF p \in DOMAIN activations THEN activations[p] ELSE <<>>
           Mentions(p) == IF profiles'[p] # Gone /\ profiles'[p].name = "Ollanta Way"
                         THEN Overwrite(Old(p), Bundled(profiles'[p].language)) ELSE Old(p)
<1>1. /\ profiles' = kept \o added
      /\ activations' = [p \in DOMAIN profiles' |-> Mentions(p)]
      /\ projectProfiles' = projectProfiles
  BY DEF SyncBuiltInProfiles
<1>2. IsFiniteSet(wanted)
  BY ProfileAssumption, FS_Subset
<1>3. m \in Nat /\ DOMAIN missing = 1..m /\ \A k \in 1..m : missing[k] \in Languages
  BY <1>2, ListOfSet
<1>4. n \in Nat /\ DOMAIN profiles = 1..n /\ Len(activations) = n /\ DOMAIN activations = 1..n
  BY DEF ProfileInv, ProfileRowsSound
<1>5. ASSUME NEW p \in ProfileIds
      PROVE  /\ kept[p] = Profile(profiles[p].name, profiles[p].language, profiles[p].parent, Default(p), Builtin(p))
             /\ p \in 1..n
  <2>1. IsProfile(profiles[p], ProfileIds) /\ p \in DOMAIN profiles /\ profiles[p] # Gone
    BY DEF ProfileInv, ProfileRowsSound, ProfileIds
  <2> DEFINE builtin == Builtin(p)
             default == Default(p)
  <2>2. kept[p] = [profiles[p] EXCEPT !.isBuiltin = builtin, !.isDefault = default]
    BY <2>1
  <2> HIDE DEF builtin, default
  <2>3. [profiles[p] EXCEPT !.isBuiltin = builtin, !.isDefault = default]
           = Profile(profiles[p].name, profiles[p].language, profiles[p].parent, default, builtin)
    BY <2>1, FlagsAreSet DEF IsProfile
  <2>4. QED
    BY <1>4, <2>1, <2>2, <2>3 DEF builtin, default
<1>6. \A p \in DOMAIN profiles \ ProfileIds : kept[p] = Gone
  BY DEF ProfileIds
<1>7. \A l \in Languages : IsProfile(Row(l), ProfileIds) /\ Row(l) # Gone
  <2>1. \A l \in Languages : IsProfile(Row(l), ProfileIds)
    BY DEF IsProfile, Profile
  <2>2. QED
    BY <2>1, RowIsNotGone
<1> HIDE DEF missing, m, Row, Default, Builtin
<1>8. DOMAIN kept = 1..n /\ DOMAIN added = 1..m
  BY <1>3, <1>4
<1>9. \A k \in 1..m : added[k] = Row(missing[k])
  BY <1>3
<1> HIDE DEF kept, added, n
<1> DEFINE S == {kept[p] : p \in 1..n} \cup {added[k] : k \in 1..m}
<1>10. kept \in Seq(S) /\ Len(kept) = n /\ added \in Seq(S) /\ Len(added) = m
  <2>1. kept = [p \in 1..n |-> kept[p]] /\ added = [k \in 1..m |-> added[k]]
    BY <1>8, <1>4 DEF kept, added
  <2>2. (\A p \in 1..n : kept[p] \in S) /\ \A k \in 1..m : added[k] \in S
    OBVIOUS
  <2> HIDE DEF S
  <2>3. kept \in Seq(S) /\ Len(kept) = n
    BY <1>4, <2>1, <2>2, ListIsSequence
  <2>4. added \in Seq(S) /\ Len(added) = m
    BY <1>3, <2>1, <2>2, ListIsSequence
  <2>5. QED
    BY <2>3, <2>4
<1>11. /\ profiles' \in Seq(S) /\ Len(profiles') = n + m /\ DOMAIN profiles' = 1..(n + m)
       /\ \A p \in 1..n : profiles'[p] = kept[p]
       /\ \A p \in (n + 1)..(n + m) : profiles'[p] = added[p - n]
  <2> HIDE DEF S
  <2>1. /\ profiles' \in Seq(S) /\ Len(profiles') = n + m
        /\ \A p \in 1..(n + m) : profiles'[p] = IF p <= n THEN kept[p] ELSE added[p - n]
    BY <1>1, <1>10, ConcatProperties
  <2>2. QED
    BY <1>3, <1>4, <2>1
<1>12. \A p \in (n + 1)..(n + m) : p - n \in 1..m
  BY <1>3, <1>4
<1>13. ASSUME NEW p \in DOMAIN profiles'
       PROVE  /\ p \in ProfileIds => p \in ProfileIds' /\ profiles'[p].language = profiles[p].language
              /\ p \in DOMAIN profiles /\ p \in ProfileIds' => p \in ProfileIds
              /\ profiles'[p] # Gone => IsProfile(profiles'[p], ProfileIds)
  <2>1. CASE p \in ProfileIds
    <3>1. profiles'[p] = Profile(profiles[p].name, profiles[p].language, profiles[p].parent, Default(p), Builtin(p))
      BY <1>5, <1>11, <2>1
    <3>2. IsProfile(profiles[p], ProfileIds)
      BY <2>1 DEF ProfileInv, ProfileRowsSound
    <3>3. IsProfile(profiles'[p], ProfileIds) /\ profiles'[p].language = profiles[p].language
      BY <3>1, <3>2 DEF IsProfile, Profile
    <3>4. QED
      BY <2>1, <3>3, RowIsNotGone DEF ProfileIds
  <2>2. CASE p \in DOMAIN profiles \ ProfileIds
    <3>1. profiles'[p] = Gone
      BY <1>4, <1>6, <1>11, <2>2
    <3>2. QED
      BY <2>2, <3>1 DEF ProfileIds
  <2>3. CASE p \in (n + 1)..(n + m)
    <3>1. profiles'[p] = Row(missing[p - n]) /\ missing[p - n] \in Languages
      BY <1>3, <1>9, <1>11, <1>12, <2>3
    <3>2. p \notin DOMAIN profiles /\ p \notin ProfileIds
      BY <1>3, <1>4, <2>3 DEF ProfileIds
    <3>3. QED
      BY <1>7, <3>1, <3>2
  <2>4. p \in 1..n \/ p \in (n + 1)..(n + m)
    BY <1>3, <1>4, <1>11
  <2>5. QED
    BY <1>4, <2>1, <2>2, <2>3, <2>4
<1>14. 1..n \subseteq 1..(n + m) /\ ProfileIds \subseteq DOMAIN profiles'
  BY <1>3, <1>4, <1>11 DEF ProfileIds
<1>15. ProfileIds \subseteq ProfileIds'
  BY <1>13, <1>14
<1>16. \A p \in ProfileIds' : IsProfile(profiles'[p], ProfileIds')
  BY <1>13, <1>15 DEF ProfileIds, IsProfile
<1> HIDE DEF Bundled
<1>17. (\E T : activations' \in Seq(T)) /\ Len(activations') = Len(profiles')
  <2> HIDE DEF Mentions, S
  <2>1. activations' = [p \in 1..(n + m) |-> Mentions(p)]
    BY <1>1, <1>11
  <2>2. activations' \in Seq({Mentions(p) : p \in 1..(n + m)}) /\ Len(activations') = n + m
    BY <1>3, <1>4, <2>1
  <2>3. QED
    BY <1>11, <2>2
<1>18. \A p \in DOMAIN profiles : DOMAIN activations[p] \subseteq DOMAIN activations'[p]
  <2>1. ASSUME NEW p \in 1..n PROVE DOMAIN activations[p] \subseteq DOMAIN Mentions(p)
    BY <1>4 DEF Overwrite
  <2>2. \A p \in 1..n : p \in DOMAIN profiles'
    BY <1>11, <1>14
  <2> HIDE DEF Mentions
  <2>3. QED
    BY <1>1, <1>4, <2>1, <2>2
<1>19. ProfileRowsSound'
  BY <1>11, <1>16, <1>17 DEF ProfileRowsSound
<1>20. ProfilesGo
  <2>1. \A p \in DOMAIN profiles : p \in Ids(profiles') => p \in ProfileIds'
    BY DEF Ids, ProfileIds
  <2>2. DOMAIN profiles \subseteq DOMAIN profiles'
    BY <1>4, <1>11, <1>14
  <2>3. QED
    BY <1>13, <1>18, <2>1, <2>2 DEF ProfilesGo
<1>21. AssignmentsSound'
  BY <1>1, <1>13, <1>14, <1>15 DEF ProfileInv, AssignmentsSound
<1>22. QED
  BY <1>19, <1>20, <1>21

\* Rules are stored for a profile that is there; what it mentioned it still mentions.
LEMMA RulesStored ==
  ASSUME ProfileInv, NEW p \in ProfileIds, NEW rules, UNCHANGED <<profiles, projectProfiles>>,
         activations' = [activations EXCEPT ![p] = Overwrite(@, rules)]
  PROVE  /\ ProfileRowsSound' /\ AssignmentsSound' /\ ProfilesGo
         /\ DOMAIN activations'[p] = DOMAIN activations[p] \cup DOMAIN rules
<1> DEFINE new == Overwrite(activations[p], rules)
<1>1. PICK T : activations \in Seq(T)
  BY DEF ProfileInv, ProfileRowsSound
<1>2. PICK n \in Nat : /\ Len(profiles) = n /\ Len(activations) = n /\ DOMAIN profiles = 1..n
                      /\ DOMAIN activations = 1..n /\ p \in 1..n
  BY <1>1 DEF ProfileInv, ProfileRowsSound, ProfileIds
<1>3. DOMAIN new = DOMAIN activations[p] \cup DOMAIN rules
  BY DEF Overwrite
<1> HIDE DEF new
<1>4. activations' = [q \in 1..n |-> IF q = p THEN new ELSE activations[q]]
  BY <1>2 DEF new
<1> DEFINE U == T \cup {new}
<1>5. activations' \in Seq(U) /\ Len(activations') = n
  <2>1. \A q \in 1..n : activations[q] \in U
    BY <1>1, <1>2
  <2>2. new \in U
    OBVIOUS
  <2> HIDE DEF U
  <2>3. activations' \in [1..n -> U]
    BY <1>4, <2>1, <2>2
  <2>4. \A f \in [1..n -> U] : f \in Seq(U) /\ Len(f) = n
    OBVIOUS
  <2>5. QED
    BY <2>3, <2>4, Zenon
<1>6. ProfileRowsSound'
  BY <1>2, <1>5 DEF ProfileInv, ProfileRowsSound, ProfileIds
<1>7. AssignmentsSound'
  BY DEF ProfileInv, AssignmentsSound, ProfileIds
<1>8. ProfilesGo
  BY <1>2, <1>3, <1>4 DEF ProfilesGo, Ids, ProfileIds
<1>9. QED
  BY <1>2, <1>3, <1>4, <1>6, <1>7, <1>8

LEMMA TablesStay ==
  ASSUME ProfileInv, UNCHANGED <<profiles, activations, projectProfiles>>
  PROVE  ProfileRowsSound' /\ AssignmentsSound' /\ ProfilesGo
BY DEF ProfileInv, ProfileRowsSound, AssignmentsSound, ProfilesGo, ProfileIds, Ids

LEMMA NobodyActs ==
  ASSUME ProfileInv, ProfileRowsSound', AssignmentsSound', ProfilesGo, acting' = acting
  PROVE  ProfileInv'
BY RequestsOutlast DEF ProfileInv, ProfileRequestsSound

LEMMA StewardActs ==
  ASSUME ProfileInv, ProfileRowsSound', AssignmentsSound', ProfilesGo,
         NEW u \in Stewards, NEW request, acting' = [acting EXCEPT ![u] = request],
         ProfileRequestSound(request, profiles', activations')
  PROVE  ProfileInv'
BY ProfileRequestReplaced DEF ProfileInv

\* A request is begun, and nothing is written yet.
LEMMA RequestBegun ==
  ASSUME ProfileInv, UNCHANGED profileTables, NEW u \in Stewards, NEW request, Undertake(u, request),
         ProfileRequestSound(request, profiles, activations)
  PROVE  ProfileInv'
<1>1. UNCHANGED <<profiles, activations, projectProfiles>> /\ acting' = [acting EXCEPT ![u] = request]
  BY DEF profileTables, Undertake
<1>2. ProfileRequestSound(request, profiles', activations')
  BY <1>1
<1>3. QED
  BY <1>1, <1>2, TablesStay, StewardActs

\* A request is over.
LEMMA RequestOver ==
  ASSUME ProfileInv, ProfileRowsSound', AssignmentsSound', ProfilesGo, NEW u \in Stewards, Complete(u)
  PROVE  ProfileInv'
<1>1. acting' = [acting EXCEPT ![u] = Unoccupied]
  BY DEF Complete, Proceed
<1>2. ProfileRequestSound(Unoccupied, profiles', activations')
  BY DEF ProfileRequestSound, Unoccupied
<1>3. QED
  BY <1>1, <1>2, StewardActs

LEMMA RequestsBeginSoundly ==
  ASSUME ProfileInv, NEW u \in Stewards
  PROVE  /\ \A l \in Languages : \A name, q, b : CreateProfile(u, name, l, q, b) => ProfileInv'
         /\ \A name, q, b, p : UpdateProfile(u, p, name, q, b) => ProfileInv'
         /\ \A p : SetDefault(u, p) \/ CopyProfile(u, p) => ProfileInv'
         /\ \A p, r, severity : ActivateRule(u, p, r, severity) => ProfileInv'
         /\ \A p, doc : ImportProfile(u, p, doc) => ProfileInv'
         /\ \A project \in Projects, l \in Languages : \A p : AssignToProject(u, project, l, p) => ProfileInv'
<1>1. ASSUME NEW name, NEW q, NEW b, NEW l \in Languages, CreateProfile(u, name, l, q, b) PROVE ProfileInv'
  <2> DEFINE request == [op |-> "create", row |-> Profile(name, l, q, b, FALSE)]
  <2>1. ProfileRequestSound(request, profiles, activations)
    BY DEF ProfileRequestSound, Profile
  <2>2. UNCHANGED profileTables /\ Undertake(u, request)
    BY <1>1 DEF CreateProfile
  <2>3. QED
    BY <2>1, <2>2, RequestBegun
<1>2. ASSUME NEW name, NEW q, NEW b, NEW p, UpdateProfile(u, p, name, q, b) PROVE ProfileInv'
  <2> DEFINE request == [op |-> "update", profile |-> p, name |-> name, parent |-> q, isDefault |-> b]
  <2>1. ProfileRequestSound(request, profiles, activations)
    BY DEF ProfileRequestSound
  <2>2. UNCHANGED profileTables /\ Undertake(u, request)
    BY <1>2 DEF UpdateProfile
  <2>3. QED
    BY <2>1, <2>2, RequestBegun
<1>3. ASSUME NEW p, SetDefault(u, p) PROVE ProfileInv'
  <2> DEFINE request == [op |-> "default", profile |-> p, language |-> profiles[p].language]
  <2>1. ProfileRequestSound(request, profiles, activations)
    BY DEF ProfileRequestSound
  <2>2. UNCHANGED profileTables /\ Undertake(u, request)
    BY <1>3 DEF SetDefault
  <2>3. QED
    BY <2>1, <2>2, RequestBegun
<1>4. ASSUME NEW p, CopyProfile(u, p) PROVE ProfileInv'
  <2> DEFINE row == Profile("other", profiles[p].language, profiles[p].parent, FALSE, FALSE)
             request == [op |-> "copy", source |-> p, row |-> row]
  <2>1. UNCHANGED profileTables /\ Undertake(u, request) /\ p \in ProfileIds
    BY <1>4 DEF CopyProfile
  <2>2. row = Profile(row.name, row.language, row.parent, row.isDefault, row.isBuiltin) /\ row.language \in Languages
    BY <2>1 DEF Profile, ProfileInv, ProfileRowsSound, IsProfile
  <2> HIDE DEF row
  <2>3. ProfileRequestSound(request, profiles, activations)
    BY <2>2 DEF ProfileRequestSound
  <2>4. QED
    BY <2>1, <2>3, RequestBegun
<1>5. ASSUME NEW p, NEW r, NEW severity, ActivateRule(u, p, r, severity) PROVE ProfileInv'
  <2> DEFINE request == [op |-> "rules", profile |-> p, rules |-> [s \in {r} |-> severity]]
  <2>1. ProfileRequestSound(request, profiles, activations)
    BY DEF ProfileRequestSound
  <2>2. UNCHANGED profileTables /\ Undertake(u, request)
    BY <1>5 DEF ActivateRule
  <2>3. QED
    BY <2>1, <2>2, RequestBegun
<1>6. ASSUME NEW p, NEW doc, ImportProfile(u, p, doc) PROVE ProfileInv'
  <2> DEFINE request == [op |-> "rules", profile |-> p, rules |-> Imported(doc)]
  <2>1. ProfileRequestSound(request, profiles, activations)
    BY DEF ProfileRequestSound
  <2>2. UNCHANGED profileTables /\ Undertake(u, request)
    BY <1>6 DEF ImportProfile
  <2>3. QED
    BY <2>1, <2>2, RequestBegun
<1>7. ASSUME NEW project \in Projects, NEW l \in Languages, NEW p, AssignToProject(u, project, l, p) PROVE ProfileInv'
  <2> DEFINE request == [op |-> "assign", project |-> project, language |-> l, profile |-> p]
  <2>1. UNCHANGED profileTables /\ Undertake(u, request) /\ p \in ProfileIds /\ profiles[p].language = l
    BY <1>7 DEF AssignToProject
  <2>2. ProfileRequestSound(request, profiles, activations)
    BY <2>1 DEF ProfileRequestSound, ProfileIds
  <2>3. QED
    BY <2>1, <2>2, RequestBegun
<1>8. QED
  BY <1>1, <1>2, <1>3, <1>4, <1>5, <1>6, <1>7

\* The copy of a profile: its row, what the source mentions by then, and one rule after the other.
LEMMA CopyGoesOn ==
  ASSUME ProfileInv, NEW u \in Stewards
  PROVE  InsertCopy(u) \/ ReadRules(u) \/ (\E r \in RuleNames : CopyRule(u, r)) => ProfileInv'
<1> DEFINE at == acting[u].profile
<1>1. ProfileRequestSound(acting[u], profiles, activations)
  BY DEF ProfileInv, ProfileRequestsSound
<1>2. ASSUME InsertCopy(u) PROVE ProfileInv'
  <2> DEFINE request == [op |-> "copied", source |-> acting[u].source, profile |-> Len(profiles) + 1]
             row == acting[u].row
  <2>1. InsertRow(row) /\ acting' = [acting EXCEPT ![u] = request] /\ acting[u].op = "copy"
    BY <1>2 DEF InsertCopy, Proceed
  <2>2. row = Profile(row.name, row.language, row.parent, row.isDefault, row.isBuiltin) /\ row.language \in Languages
    BY <1>1, <2>1 DEF ProfileRequestSound
  <2>3. ProfileRowsSound' /\ AssignmentsSound' /\ ProfilesGo /\ Len(profiles) + 1 \in DOMAIN profiles'
    BY <2>1, <2>2, RowInserted
  <2>4. ProfileRequestSound(request, profiles', activations')
    BY <2>3 DEF ProfileRequestSound
  <2>5. QED
    BY <2>1, <2>3, <2>4, StewardActs
<1>3. ASSUME ReadRules(u) PROVE ProfileInv'
  <2> DEFINE rules == activations[acting[u].source]
             request == [op |-> "copying", profile |-> at, rules |-> rules, left |-> DOMAIN rules]
  <2>1. /\ UNCHANGED <<profiles, activations, projectProfiles>> /\ acting[u].op = "copied"
        /\ acting' = [acting EXCEPT ![u] = request]
    BY <1>3 DEF ReadRules, Proceed, profileTables
  <2>2. at \in DOMAIN profiles
    BY <1>1, <2>1 DEF ProfileRequestSound
  <2> HIDE DEF rules, at
  <2>3. ProfileRequestSound(request, profiles', activations')
    BY <2>1, <2>2 DEF ProfileRequestSound
  <2>4. QED
    BY <2>1, <2>3, TablesStay, StewardActs
<1>4. ASSUME NEW r \in RuleNames, CopyRule(u, r) PROVE ProfileInv'
  <2> DEFINE rule == [s \in {r} |-> acting[u].rules[r]]
             request == [acting[u] EXCEPT !.left = @ \ {r}]
  <2>1. /\ acting[u].op = "copying" /\ r \in acting[u].left /\ at \in ProfileIds
        /\ activations' = [activations EXCEPT ![at] = Overwrite(@, rule)]
        /\ acting' = [acting EXCEPT ![u] = request]
        /\ UNCHANGED <<profiles, projectProfiles>>
    BY <1>4 DEF CopyRule, Proceed
  <2>2. DOMAIN rule = {r}
    OBVIOUS
  <2> HIDE DEF rule
  <2>3. /\ ProfileRowsSound' /\ AssignmentsSound' /\ ProfilesGo
        /\ DOMAIN activations'[at] = DOMAIN activations[at] \cup {r}
    BY <2>1, <2>2, RulesStored
  <2>4. /\ acting[u] = [op |-> "copying", profile |-> at, rules |-> acting[u].rules, left |-> acting[u].left]
        /\ DOMAIN acting[u].rules \subseteq acting[u].left \cup DOMAIN activations[at]
        /\ at \in DOMAIN profiles
    BY <1>1, <2>1 DEF ProfileRequestSound, ProfileIds, Ids
  <2>5. request = [op |-> "copying", profile |-> at, rules |-> acting[u].rules, left |-> acting[u].left \ {r}]
    BY <2>4
  <2> HIDE DEF request, at
  <2>6. ProfileRequestSound(request, profiles', activations')
    BY <2>1, <2>3, <2>4, <2>5 DEF ProfileRequestSound
  <2>7. QED
    BY <2>1, <2>3, <2>6, StewardActs
<1>5. QED
  BY <1>2, <1>3, <1>4

\* The statements that write, of the requests that are done with them.
LEMMA StatementsWrite ==
  ASSUME ProfileInv, NEW u \in Stewards
  PROVE  InsertProfile(u) \/ UpdateRow(u) \/ SetDefaultRow(u) \/ StoreRules(u) \/ AssignRow(u) => ProfileInv'
<1>1. ProfileRequestSound(acting[u], profiles, activations)
  BY DEF ProfileInv, ProfileRequestsSound
<1>2. ASSUME InsertProfile(u) PROVE ProfileInv'
  <2> DEFINE row == acting[u].row
  <2>1. InsertRow(row) /\ Complete(u) /\ acting[u].op = "create"
    BY <1>2 DEF InsertProfile
  <2>2. row = Profile(row.name, row.language, row.parent, row.isDefault, row.isBuiltin) /\ row.language \in Languages
    BY <1>1, <2>1 DEF ProfileRequestSound
  <2>3. ProfileRowsSound' /\ AssignmentsSound' /\ ProfilesGo
    BY <2>1, <2>2, RowInserted
  <2>4. QED
    BY <2>1, <2>3, RequestOver
<1>3. ASSUME UpdateRow(u) PROVE ProfileInv'
  <2>1. Complete(u)
    BY <1>3 DEF UpdateRow
  <2>2. QED
    BY <1>3, <2>1, ProfileUpdated, RequestOver
<1>4. ASSUME SetDefaultRow(u) PROVE ProfileInv'
  <2>1. Complete(u)
    BY <1>4 DEF SetDefaultRow
  <2>2. QED
    BY <1>4, <2>1, DefaultSet, RequestOver
<1>5. ASSUME StoreRules(u) PROVE ProfileInv'
  <2>1. /\ Complete(u) /\ acting[u].profile \in ProfileIds /\ UNCHANGED <<profiles, projectProfiles>>
        /\ activations' = [activations EXCEPT ![acting[u].profile] = Overwrite(@, acting[u].rules)]
    BY <1>5 DEF StoreRules
  <2>2. ProfileRowsSound' /\ AssignmentsSound' /\ ProfilesGo
    BY <2>1, RulesStored
  <2>3. QED
    BY <2>1, <2>2, RequestOver
<1>6. ASSUME AssignRow(u) PROVE ProfileInv'
  <2> DEFINE x == <<acting[u].project, acting[u].language>>
             at == acting[u].profile
  <2>1. /\ Complete(u) /\ at \in ProfileIds /\ acting[u].op = "assign"
        /\ UNCHANGED <<profiles, activations>>
        /\ projectProfiles' = [projectProfiles EXCEPT ![x] = at]
    BY <1>6 DEF AssignRow
  <2>2. x \in Projects \X Languages /\ profiles[at].language = x[2]
    BY <1>1, <2>1 DEF ProfileRequestSound, ProfileIds, Ids
  <2>3. /\ projectProfiles = [y \in Projects \X Languages |-> projectProfiles[y]]
        /\ \A y \in Projects \X Languages : projectProfiles[y] # Root =>
             projectProfiles[y] \in ProfileIds /\ profiles[projectProfiles[y]].language = y[2]
    BY DEF ProfileInv, AssignmentsSound
  <2> HIDE DEF x, at
  <2>4. projectProfiles' = [y \in Projects \X Languages |-> IF y = x THEN at ELSE projectProfiles[y]]
    BY <2>1, <2>3
  <2>5. \A y \in Projects \X Languages : projectProfiles'[y] # Root =>
          projectProfiles'[y] \in ProfileIds /\ profiles[projectProfiles'[y]].language = y[2]
    BY <2>1, <2>2, <2>3, <2>4
  <2>6. AssignmentsSound'
    BY <2>1, <2>4, <2>5 DEF AssignmentsSound, ProfileIds
  <2>7. ProfileRowsSound' /\ ProfilesGo
    BY <2>1 DEF ProfileInv, ProfileRowsSound, ProfilesGo, ProfileIds, Ids
  <2>8. QED
    BY <2>1, <2>6, <2>7, RequestOver
<1>7. QED
  BY <1>2, <1>3, <1>4, <1>5, <1>6

LEMMA ProfilesStep == ProfileInv /\ [ProfileNext]_profileVars => ProfileInv'
<1> SUFFICES ASSUME ProfileInv, [ProfileNext]_profileVars PROVE ProfileInv'
  OBVIOUS
<1>1. CASE SyncBuiltInProfiles
  BY <1>1, ProfilesSynced, NobodyActs DEF SyncBuiltInProfiles
<1>2. ASSUME NEW p \in ProfileIds, DeleteProfile(p) PROVE ProfileInv'
  BY <1>2, ProfileDeleted, NobodyActs DEF DeleteProfile
<1>3. ASSUME NEW r, CustomRuleChanges(r) PROVE ProfileInv'
  BY <1>3, TablesStay, NobodyActs DEF CustomRuleChanges
<1>4. CASE UNCHANGED profileVars
  BY <1>4, TablesStay, NobodyActs DEF profileVars
<1>5. ASSUME NEW u \in Stewards, CopyDone(u) \/ ProfileRequestFails(u) PROVE ProfileInv'
  BY <1>5, TablesStay, RequestOver DEF CopyDone, ProfileRequestFails, profileTables
<1> DEFINE Begins(u) ==
      \/ \E l \in Languages, q \in ProfileIds \cup {Root}, b \in BOOLEAN : CreateProfile(u, "other", l, q, b)
      \/ \E p \in ProfileIds, q \in ProfileIds \cup {Root}, b \in BOOLEAN, name \in {"other", "Ollanta Way"} :
            (name = profiles[p].name \/ profiles[p].isBuiltin) /\ UpdateProfile(u, p, name, q, b)
      \/ \E p \in ProfileIds : SetDefault(u, p) \/ CopyProfile(u, p)
      \/ \E p \in ProfileIds, r \in RuleNames, s \in Severities : ActivateRule(u, p, r, s)
      \/ \E p, q \in ProfileIds : ~Cyclic(q) /\ ImportProfile(u, p, Export(q))
      \/ \E project \in Projects, l \in Languages, p \in ProfileIds : AssignToProject(u, project, l, p)
<1>6. ASSUME NEW u \in Stewards, Begins(u) PROVE ProfileInv'
  BY <1>6, RequestsBeginSoundly
<1>7. ASSUME NEW u \in Stewards,
             \/ InsertProfile(u) \/ UpdateRow(u) \/ SetDefaultRow(u) \/ StoreRules(u)
             \/ InsertCopy(u) \/ ReadRules(u) \/ (\E r \in RuleNames : CopyRule(u, r)) \/ AssignRow(u)
      PROVE  ProfileInv'
  BY <1>7, CopyGoesOn, StatementsWrite
<1>8. ProfileNext => \/ SyncBuiltInProfiles \/ \E p \in ProfileIds : DeleteProfile(p)
                     \/ \E r \in RuleNames \ BundledRules : CustomRuleChanges(r)
                     \/ \E u \in Stewards : \/ Begins(u) \/ CopyDone(u) \/ ProfileRequestFails(u)
                           \/ InsertProfile(u) \/ UpdateRow(u) \/ SetDefaultRow(u) \/ StoreRules(u)
                           \/ InsertCopy(u) \/ ReadRules(u) \/ (\E r \in RuleNames : CopyRule(u, r)) \/ AssignRow(u)
  BY DEF ProfileNext
<1> HIDE DEF Begins
<1>9. QED
  BY <1>1, <1>2, <1>3, <1>4, <1>5, <1>6, <1>7, <1>8

\* Whatever is deleted while someone else's request is between its statements, a
\* profile's parent exists, and a project's profile exists and is of its language.
THEOREM ReferencesAlwaysLead == ProfileSpec => []ReferencesLead
<1>1. ProfileInv => ReferencesLead
  BY DEF ProfileInv, ProfileRowsSound, IsProfile, AssignmentsSound, ReferencesLead
<1>2. QED
  BY <1>1, ProfilesAtFirst, ProfilesStep, PTL DEF ProfileSpec

\* A copy that is answered with success holds every rule that its source mentioned
\* when they were read, unless the copy was deleted meanwhile.
THEOREM CopiesAreWhole == ProfileSpec => CopyIsWhole
<1> DEFINE Whole == \A u \in Stewards : CopyDone(u) =>
                      \A r \in DOMAIN acting[u].rules :
                        acting[u].profile \in ProfileIds => r \in DOMAIN activations[acting[u].profile]
<1>1. ProfileInv => Whole
  <2> SUFFICES ASSUME ProfileInv, NEW u \in Stewards, CopyDone(u), NEW r \in DOMAIN acting[u].rules,
                      acting[u].profile \in ProfileIds
               PROVE  r \in DOMAIN activations[acting[u].profile]
    OBVIOUS
  <2>1. ProfileRequestSound(acting[u], profiles, activations) /\ acting[u].op = "copying" /\ acting[u].left = {}
    BY DEF ProfileInv, ProfileRequestsSound, CopyDone
  <2>2. QED
    BY <2>1 DEF ProfileRequestSound, ProfileIds, Ids
<1>2. ProfileInv => [Whole]_profileVars
  BY <1>1
<1> HIDE DEF Whole
<1>3. ProfileSpec => [][Whole]_profileVars
  BY <1>2, ProfilesAtFirst, ProfilesStep, PTL DEF ProfileSpec
<1>4. QED
  BY <1>3 DEF CopyIsWhole, Whole
-----------------------------------------------------------------------------
(* Inheritance of quality profiles                                         *)

Kin == ProfileIds \cup {Root}
ParentOf(p) == IF p = Root THEN Root ELSE profiles[p].parent

LEMMA ParentIsKin ==
  ASSUME ProfileInv
  PROVE  /\ \A p \in Kin : ParentOf(p) \in Kin
         /\ Root \notin ProfileIds /\ Len(profiles) \in Nat /\ DOMAIN profiles = 1..Len(profiles)
<1>1. PICK S : profiles \in Seq(S)
  BY DEF ProfileInv, ProfileRowsSound
<1>2. Root \notin ProfileIds
  BY <1>1 DEF ProfileIds, Root
<1>3. QED
  BY <1>1, <1>2 DEF ProfileInv, ProfileRowsSound, IsProfile, Kin, ParentOf

\* The recursion of Ancestry is well founded: it climbs from parent to parent.
LEMMA AncestryClimbs ==
  ASSUME ProfileInv, NEW p \in Kin
  PROVE  /\ Ancestry(p) \in [0..Len(profiles) -> Kin] /\ Ancestry(p)[0] = p
         /\ \A k \in 1..Len(profiles) : Ancestry(p)[k] = ParentOf(Ancestry(p)[k - 1])
<1> DEFINE n == Len(profiles)
           Up(f) == [k \in 0..n |-> IF k = 0 THEN p ELSE IF f[k - 1] = Root THEN Root ELSE profiles[f[k - 1]].parent]
           step == [k \in 1..n |-> [q \in Kin |-> ParentOf(q)]]
<1>1. n \in Nat /\ \A q \in Kin : ParentOf(q) \in Kin
  BY ParentIsKin
<1>2. \A k \in 1..n, q \in Kin : step[k][q] = ParentOf(q) /\ step[k][q] \in Kin
  BY <1>1
<1> HIDE DEF step
<1>3. PICK f : Solves(f, n, Kin, p, step)
  <2> HIDE DEF n
  <2>1. QED
    BY <1>1, <1>2, RecursionExists
<1>4. /\ f \in [0..n -> Kin] /\ f[0] = p
      /\ \A k \in 1..n : f[k] = ParentOf(f[k - 1])
  <2>1. ASSUME NEW k \in 1..n PROVE f[k] = ParentOf(f[k - 1])
    <3>1. f[k - 1] \in Kin
      BY <1>1, <1>3 DEF Solves
    <3>2. QED
      BY <1>2, <1>3, <3>1 DEF Solves
  <2>2. QED
    BY <1>3, <2>1 DEF Solves
<1> HIDE DEF n
<1>5. f = Up(f)
  <2>1. ASSUME NEW k \in 0..n
        PROVE  f[k] = IF k = 0 THEN p ELSE IF f[k - 1] = Root THEN Root ELSE profiles[f[k - 1]].parent
    <3>1. CASE k = 0
      BY <1>4, <3>1
    <3>2. CASE k # 0
      <4>1. k \in 1..n
        BY <1>1, <3>2
      <4>2. f[k] = ParentOf(f[k - 1])
        BY <1>4, <4>1
      <4>3. QED
        BY <3>2, <4>2 DEF ParentOf
    <3>3. QED
      BY <3>1, <3>2
  <2>2. QED
    BY <1>4, <2>1
<1>6. Ancestry(p) = CHOOSE up : up = Up(up)
  BY DEF Ancestry, n
<1>7. Ancestry(p) = Up(Ancestry(p))
  <2> HIDE DEF Up
  <2>1. QED
    BY <1>5, <1>6
<1> DEFINE up == Ancestry(p)
<1>8. /\ up[0] = p /\ \A k \in 1..n : up[k] = ParentOf(up[k - 1])
      /\ DOMAIN up = 0..n /\ up = [k \in 0..n |-> up[k]]
  <2> HIDE DEF up
  <2>1. up = Up(up)
    BY <1>7 DEF up
  <2>2. DOMAIN up = 0..n
    BY <2>1
  <2>3. \A k \in 0..n : up[k] = IF k = 0 THEN p ELSE IF up[k - 1] = Root THEN Root ELSE profiles[up[k - 1]].parent
    BY <2>1
  <2>4. up = [k \in 0..n |-> up[k]]
    BY <2>1, <2>2
  <2>5. up[0] = p
    BY <1>1, <2>3
  <2>6. ASSUME NEW k \in 1..n PROVE up[k] = ParentOf(up[k - 1])
    <3>1. k \in 0..n /\ k # 0
      BY <1>1
    <3>2. up[k] = IF up[k - 1] = Root THEN Root ELSE profiles[up[k - 1]].parent
      BY <2>3, <3>1
    <3>3. QED
      BY <3>2 DEF ParentOf
  <2>7. QED
    BY <2>2, <2>4, <2>5, <2>6
<1> HIDE DEF up, Up
<1>9. ASSUME NEW k \in 0..n PROVE up[k] \in Kin
  <2> DEFINE good == {i \in 0..n : up[i] \in Kin}
  <2>1. 0 \in good
    BY <1>1, <1>8
  <2>2. ASSUME NEW i \in 1..n, i - 1 \in good PROVE i \in good
    <3>1. up[i - 1] \in Kin
      BY <2>2
    <3>2. ParentOf(up[i - 1]) \in Kin /\ i \in 0..n
      BY <1>1, <3>1
    <3>3. up[i] = ParentOf(up[i - 1])
      BY <1>8
    <3>4. QED
      BY <3>2, <3>3
  <2>3. 0..n \subseteq good
    <3> HIDE DEF good
    <3>1. QED
      BY <1>1, <2>1, <2>2, Counting
  <2>4. QED
    BY <2>3
<1>10. up \in [0..n -> Kin]
  BY <1>8, <1>9
<1>11. QED
  BY <1>8, <1>10 DEF up, n

\* Without a cycle the chain is the way from the root down to the profile.
LEMMA ChainIsPath ==
  ASSUME ProfileInv, NEW p \in ProfileIds, ~Cyclic(p)
  PROVE  /\ Depth(p) \in 1..Len(profiles)
         /\ \A k \in 0..Len(profiles) : Ancestry(p)[k] # Root <=> k < Depth(p)
         /\ \A i \in 1..Depth(p) : Chain(p)[i] = Ancestry(p)[Depth(p) - i] /\ Chain(p)[i] \in ProfileIds
         /\ DOMAIN Chain(p) = 1..Depth(p)
<1> DEFINE n == Len(profiles)
           up == Ancestry(p)
           ends == {k \in 0..n : up[k] = Root}
<1>1. n \in Nat /\ Root \notin ProfileIds
  BY ParentIsKin
<1>2. up \in [0..n -> Kin] /\ up[0] = p /\ \A k \in 1..n : up[k] = ParentOf(up[k - 1])
  BY AncestryClimbs DEF Kin
<1>3. up[n] = Root
  BY DEF Cyclic
<1>4. Depth(p) = Cardinality({k \in 0..n : up[k] # Root})
  BY DEF Depth
<1>5. Chain(p) = [i \in 1..Depth(p) |-> up[Depth(p) - i]]
  BY DEF Chain
<1> HIDE DEF n, up
<1>6. PICK d \in ends : \A k \in ends : d <= k
  <2>1. ends \subseteq Nat /\ n \in ends
    BY <1>1, <1>3
  <2> HIDE DEF ends
  <2>2. QED
    BY <2>1, LeastOfNumbers
<1>7. d \in 1..n
  BY <1>1, <1>2, <1>6
<1>8. ASSUME NEW k \in 0..n, k >= d PROVE up[k] = Root
  <2> DEFINE good == {i \in 0..n : i >= d => up[i] = Root}
  <2>1. 0 \in good
    BY <1>1, <1>7
  <2>2. ASSUME NEW i \in 1..n, i - 1 \in good PROVE i \in good
    <3>1. CASE i < d
      BY <1>7, <3>1
    <3>2. CASE i = d
      BY <1>6, <3>2
    <3>3. CASE i > d
      <4>1. up[i - 1] = Root
        BY <1>7, <2>2, <3>3
      <4>2. QED
        BY <1>2, <4>1 DEF ParentOf
    <3>4. QED
      BY <1>7, <3>1, <3>2, <3>3
  <2>3. 0..n \subseteq good
    <3> HIDE DEF good
    <3>1. QED
      BY <1>1, <2>1, <2>2, Counting
  <2>4. QED
    BY <1>8, <2>3
<1>9. \A k \in 0..n : up[k] # Root <=> k < d
  BY <1>6, <1>7, <1>8
<1>10. {k \in 0..n : up[k] # Root} = 0..(d - 1)
  BY <1>1, <1>7, <1>9
<1>11. Cardinality(0..(d - 1)) = d
  <2>1. d - 1 \in Int /\ 0 \in Int /\ ~(0 > d - 1)
    BY <1>7
  <2>2. Cardinality(0..(d - 1)) = (d - 1) - 0 + 1
    BY <2>1, FS_Interval
  <2>3. QED
    BY <1>7, <2>2
<1>12. Depth(p) = d
  BY <1>4, <1>10, <1>11
<1>13. ASSUME NEW i \in 1..d PROVE d - i \in 0..n /\ up[d - i] \in ProfileIds
  <2>1. d - i \in 0..n /\ d - i < d
    BY <1>1, <1>7
  <2>2. QED
    BY <1>2, <1>9, <2>1 DEF Kin
<1>14. QED
  BY <1>5, <1>7, <1>9, <1>12, <1>13 DEF n, up

-----------------------------------------------------------------------------
(* The rules of a profile                                                  *)

\* What a profile may say of the rules it mentions.
Tables(N, R) == UNION {[D -> R] : D \in SUBSET N}
Settings == Tables(RuleNames, Severities)

\* Whatever a request is about to write into a profile is of that kind, and the source of a copy
\* has been there.
SetsSettings(r, ids) ==
    /\ r.op \in {"rules", "copying"} => r.rules \in Settings
    /\ r.op = "copying" => r.left \subseteq DOMAIN r.rules
    /\ r.op \in {"copy", "copied"} => r.source \in ids

SettingsSound ==
    /\ published \subseteq RuleNames \ BundledRules
    /\ \A p \in DOMAIN profiles : activations[p] \in Settings
    /\ \A u \in Stewards : SetsSettings(acting[u], DOMAIN profiles)

\* What is known of a rule once profiles are merged.
Entries == [severity : Severities, source : ProfileIds, origin : {"disabled", "inherited", "overridden", "local"}]
Mergers == Tables(RuleNames, Entries)

LEMMA FunctionsInto ==
  ASSUME NEW N, NEW R
  PROVE  /\ \A f : f \in Tables(N, R) =>
              f = [x \in DOMAIN f |-> f[x]] /\ DOMAIN f \subseteq N /\ \A x \in DOMAIN f : f[x] \in R
         /\ \A f : f = [x \in DOMAIN f |-> f[x]] /\ DOMAIN f \subseteq N /\ (\A x \in DOMAIN f : f[x] \in R) =>
              f \in Tables(N, R)
<1>1. ASSUME NEW f \in Tables(N, R)
      PROVE  f = [x \in DOMAIN f |-> f[x]] /\ DOMAIN f \subseteq N /\ \A x \in DOMAIN f : f[x] \in R
  <2>1. PICK D \in SUBSET N : f \in [D -> R]
    BY DEF Tables
  <2>2. QED
    BY <2>1
<1>2. ASSUME NEW f, f = [x \in DOMAIN f |-> f[x]], DOMAIN f \subseteq N, \A x \in DOMAIN f : f[x] \in R
      PROVE  f \in Tables(N, R)
  <2>1. f \in [DOMAIN f -> R]
    BY <1>2
  <2>2. QED
    BY <1>2, <2>1 DEF Tables
<1>3. QED
  BY <1>1, <1>2

LEMMA EmptyIsFunction == DOMAIN <<>> = {} /\ <<>> = [x \in DOMAIN <<>> |-> <<>>[x]]
OBVIOUS

LEMMA NothingIsSet == <<>> \in Settings /\ <<>> \in Mergers /\ DOMAIN <<>> = {}
<1> DEFINE nothing == <<>>
<1>1. DOMAIN nothing = {} /\ nothing = [x \in DOMAIN nothing |-> nothing[x]]
  BY EmptyIsFunction
<1> HIDE DEF nothing
<1>2. nothing \in Settings
  BY <1>1, FunctionsInto DEF Settings
<1>3. nothing \in Mergers
  BY <1>1, FunctionsInto DEF Mergers
<1>4. QED
  BY <1>1, <1>2, <1>3 DEF nothing

\* mergeProfileRules: what a profile mentions replaces what came before, the rest stays.
LEMMA MergeReplaces ==
  ASSUME NEW merged \in Mergers, NEW q \in ProfileIds, activations[q] \in Settings, NEW leaf
  PROVE  LET result == MergeProfileRules(merged, q, leaf)
         IN  /\ result \in Mergers /\ DOMAIN result = DOMAIN merged \cup DOMAIN activations[q]
             /\ \A r \in DOMAIN activations[q] : result[r].source = q /\ result[r].severity = activations[q][r]
             /\ \A r \in DOMAIN merged : r \notin DOMAIN activations[q] => result[r] = merged[r]
<1> DEFINE said == activations[q]
           Entry(r) == EffectiveRule(q, leaf, said[r], r \in DOMAIN merged)
           result == [r \in DOMAIN merged \cup DOMAIN said |-> IF r \in DOMAIN said THEN Entry(r) ELSE merged[r]]
<1>1. MergeProfileRules(merged, q, leaf) = result
  BY DEF MergeProfileRules
<1>2. DOMAIN merged \subseteq RuleNames /\ \A r \in DOMAIN merged : merged[r] \in Entries
  BY FunctionsInto DEF Mergers
<1>3. DOMAIN said \subseteq RuleNames /\ \A r \in DOMAIN said : said[r] \in Severities
  BY FunctionsInto DEF Settings
<1> HIDE DEF said
<1>4. ASSUME NEW r \in DOMAIN said
      PROVE  Entry(r) \in Entries /\ Entry(r).source = q /\ Entry(r).severity = said[r]
  BY <1>3 DEF EffectiveRule, Entries
<1> HIDE DEF Entry
<1>5. DOMAIN result = DOMAIN merged \cup DOMAIN said /\ result = [r \in DOMAIN result |-> result[r]]
  OBVIOUS
<1>6. \A r \in DOMAIN result : result[r] \in Entries
  BY <1>2, <1>4
<1>7. \A r \in DOMAIN said : result[r] = Entry(r)
  OBVIOUS
<1>8. \A r \in DOMAIN merged : r \notin DOMAIN said => result[r] = merged[r]
  OBVIOUS
<1> HIDE DEF result
<1>9. result \in Mergers
  <2>1. DOMAIN result \subseteq RuleNames
    BY <1>2, <1>3, <1>5
  <2>2. result = [r \in DOMAIN result |-> result[r]]
    BY <1>5
  <2>3. QED
    BY <1>6, <2>1, <2>2, FunctionsInto DEF Mergers
<1>10. QED
  BY <1>1, <1>4, <1>5, <1>7, <1>8, <1>9 DEF said

\* The recursion of Merging is well founded: it goes down the chain.
LEMMA MergingGoesDown ==
  ASSUME ProfileInv, SettingsSound, NEW p \in ProfileIds, ~Cyclic(p)
  PROVE  /\ Merging(p)[0] = <<>>
         /\ \A k \in 0..Depth(p) : Merging(p)[k] \in Mergers
         /\ \A k \in 1..Depth(p) : Merging(p)[k] = MergeProfileRules(Merging(p)[k - 1], Chain(p)[k], p)
<1> DEFINE n == Depth(p)
           nothing == <<>>
           Down(f) == [k \in 0..n |-> IF k = 0 THEN nothing ELSE MergeProfileRules(f[k - 1], Chain(p)[k], p)]
           step == [k \in 1..n |-> [m \in Mergers |-> MergeProfileRules(m, Chain(p)[k], p)]]
<1>1. n \in Nat /\ \A k \in 1..n : Chain(p)[k] \in ProfileIds
  BY ChainIsPath, ParentIsKin
<1>2. \A k \in 1..n, m \in Mergers : MergeProfileRules(m, Chain(p)[k], p) \in Mergers
  BY <1>1, MergeReplaces DEF SettingsSound, ProfileIds
<1>3. \A k \in 1..n, m \in Mergers : step[k][m] = MergeProfileRules(m, Chain(p)[k], p)
  OBVIOUS
<1>4. \A k \in 1..n, m \in Mergers : step[k][m] \in Mergers
  BY <1>2, <1>3
<1>5. nothing \in Mergers
  BY NothingIsSet
<1>6. Merging(p) = CHOOSE merged : merged = Down(merged)
  BY DEF Merging
<1> HIDE DEF n, step, nothing
<1>7. PICK f : Solves(f, n, Mergers, nothing, step)
  BY <1>1, <1>4, <1>5, RecursionExists
<1>8. f = Down(f)
  <2>1. \A k \in 1..n : f[k] = step[k][f[k - 1]] /\ f[k - 1] \in Mergers
    BY <1>1, <1>7 DEF Solves
  <2>2. \A k \in 1..n : f[k] = MergeProfileRules(f[k - 1], Chain(p)[k], p)
    BY <1>3, <2>1
  <2>3. \A k \in 0..n : f[k] = IF k = 0 THEN nothing ELSE MergeProfileRules(f[k - 1], Chain(p)[k], p)
    BY <1>1, <1>7, <2>2 DEF Solves
  <2>4. f \in [0..n -> Mergers]
    BY <1>7 DEF Solves
  <2>5. QED
    BY <2>3, <2>4
<1> HIDE DEF Down
<1>9. Merging(p) = Down(Merging(p))
  BY <1>6, <1>8
<1> DEFINE merged == Merging(p)
<1> HIDE DEF merged
<1>10. merged[0] = nothing /\ \A k \in 1..n : merged[k] = MergeProfileRules(merged[k - 1], Chain(p)[k], p)
  <2>1. merged = [k \in 0..n |-> IF k = 0 THEN nothing ELSE MergeProfileRules(merged[k - 1], Chain(p)[k], p)]
    BY <1>9 DEF merged, Down
  <2>2. \A k \in 0..n : merged[k] = IF k = 0 THEN nothing ELSE MergeProfileRules(merged[k - 1], Chain(p)[k], p)
    BY <2>1
  <2>3. \A k \in 1..n : k \in 0..n /\ k # 0
    BY <1>1
  <2>4. 0 \in 0..n
    BY <1>1
  <2>5. QED
    BY <2>2, <2>3, <2>4
<1>11. ASSUME NEW k \in 0..n PROVE merged[k] \in Mergers
  <2> DEFINE good == {i \in 0..n : merged[i] \in Mergers}
  <2>1. 0 \in good
    BY <1>1, <1>5, <1>10
  <2>2. ASSUME NEW i \in 1..n, i - 1 \in good PROVE i \in good
    <3>1. merged[i - 1] \in Mergers /\ i \in 0..n
      BY <1>1, <2>2
    <3>2. QED
      BY <1>2, <1>10, <3>1
  <2>3. 0..n \subseteq good
    <3> HIDE DEF good
    <3>1. QED
      BY <1>1, <2>1, <2>2, Counting
  <2>4. QED
    BY <2>3
<1>12. QED
  BY <1>10, <1>11 DEF n, nothing, merged

\* After k profiles of the chain a rule is what the last of them that mentions it says.
LastSays(p, k, merged) ==
    /\ \A r \in RuleNames : r \in DOMAIN merged <=> \E i \in 1..k : r \in DOMAIN activations[Chain(p)[i]]
    /\ \A r \in DOMAIN merged : \E i \in 1..k :
         /\ r \in DOMAIN activations[Chain(p)[i]]
         /\ \A j \in (i + 1)..k : r \notin DOMAIN activations[Chain(p)[j]]
         /\ merged[r].source = Chain(p)[i] /\ merged[r].severity = activations[Chain(p)[i]][r]

LEMMA LastOfChainSays ==
  ASSUME ProfileInv, SettingsSound, NEW p \in ProfileIds, ~Cyclic(p)
  PROVE  \A k \in 0..Depth(p) : LastSays(p, k, Merging(p)[k])
<1> DEFINE n == Depth(p)
           M(k) == Merging(p)[k]
           good == {k \in 0..n : LastSays(p, k, M(k))}
<1>1. n \in Nat /\ \A k \in 1..n : Chain(p)[k] \in ProfileIds /\ activations[Chain(p)[k]] \in Settings
  BY ChainIsPath, ParentIsKin DEF SettingsSound, ProfileIds
<1>2. /\ M(0) = <<>> /\ \A k \in 0..n : M(k) \in Mergers
      /\ \A k \in 1..n : M(k) = MergeProfileRules(M(k - 1), Chain(p)[k], p)
  BY MergingGoesDown
<1> HIDE DEF n, M
<1>3. 0 \in good
  <2>1. DOMAIN M(0) = {}
    BY <1>2, NothingIsSet
  <2>2. LastSays(p, 0, M(0))
    BY <2>1 DEF LastSays
  <2>3. QED
    BY <1>1, <2>2
<1>4. ASSUME NEW k \in 1..n, k - 1 \in good PROVE k \in good
  <2> DEFINE q == Chain(p)[k]
             old == M(k - 1)
             new == M(k)
  <2>1. old \in Mergers /\ q \in ProfileIds /\ activations[q] \in Settings /\ k \in 0..n
    BY <1>1, <1>2, <1>4
  <2>2. /\ DOMAIN new = DOMAIN old \cup DOMAIN activations[q]
        /\ \A r \in DOMAIN activations[q] : new[r].source = q /\ new[r].severity = activations[q][r]
        /\ \A r \in DOMAIN old : r \notin DOMAIN activations[q] => new[r] = old[r]
    <3>1. new = MergeProfileRules(old, q, p)
      BY <1>2
    <3>2. QED
      BY <2>1, <3>1, MergeReplaces
  <2>3. LastSays(p, k - 1, old)
    BY <1>4
  <2> HIDE DEF old, new
  <2>4. ASSUME NEW r \in RuleNames
        PROVE  r \in DOMAIN new <=> \E i \in 1..k : r \in DOMAIN activations[Chain(p)[i]]
    <3>1. r \in DOMAIN old <=> \E i \in 1..(k - 1) : r \in DOMAIN activations[Chain(p)[i]]
      BY <2>3 DEF LastSays
    <3>2. 1..k = 1..(k - 1) \cup {k}
      BY <1>1
    <3>3. QED
      BY <2>2, <3>1, <3>2
  <2>5. ASSUME NEW r \in DOMAIN new
        PROVE  \E i \in 1..k : /\ r \in DOMAIN activations[Chain(p)[i]]
                               /\ \A j \in (i + 1)..k : r \notin DOMAIN activations[Chain(p)[j]]
                               /\ new[r].source = Chain(p)[i] /\ new[r].severity = activations[Chain(p)[i]][r]
    <3>1. CASE r \in DOMAIN activations[q]
      <4>1. k \in 1..k /\ \A j \in (k + 1)..k : FALSE
        BY <1>1
      <4>2. QED
        BY <2>2, <3>1, <4>1
    <3>2. CASE r \notin DOMAIN activations[q]
      <4>1. r \in DOMAIN old /\ new[r] = old[r]
        BY <2>2, <3>2
      <4>2. PICK i \in 1..(k - 1) :
               /\ r \in DOMAIN activations[Chain(p)[i]]
               /\ \A j \in (i + 1)..(k - 1) : r \notin DOMAIN activations[Chain(p)[j]]
               /\ old[r].source = Chain(p)[i] /\ old[r].severity = activations[Chain(p)[i]][r]
        BY <2>3, <4>1 DEF LastSays
      <4>3. i \in 1..k /\ \A j \in (i + 1)..k : j = k \/ j \in (i + 1)..(k - 1)
        BY <1>1
      <4>4. \A j \in (i + 1)..k : r \notin DOMAIN activations[Chain(p)[j]]
        BY <3>2, <4>2, <4>3
      <4>5. QED
        BY <4>1, <4>2, <4>3, <4>4
    <3>3. QED
      BY <3>1, <3>2
  <2>6. LastSays(p, k, new)
    BY <2>4, <2>5 DEF LastSays
  <2>7. QED
    BY <2>1, <2>6 DEF new
<1>5. 0..n \subseteq good
  <2> HIDE DEF good
  <2>1. QED
    BY <1>1, <1>3, <1>4, Counting
<1>6. QED
  BY <1>5 DEF n, M

LEMMA OverwriteIsSet ==
  ASSUME NEW old \in Settings, NEW new \in Settings
  PROVE  Overwrite(old, new) \in Settings
<1> DEFINE result == Overwrite(old, new)
<1>1. /\ DOMAIN old \subseteq RuleNames /\ \A r \in DOMAIN old : old[r] \in Severities
      /\ DOMAIN new \subseteq RuleNames /\ \A r \in DOMAIN new : new[r] \in Severities
  BY FunctionsInto DEF Settings
<1>2. /\ DOMAIN result = DOMAIN old \cup DOMAIN new /\ result = [r \in DOMAIN result |-> result[r]]
      /\ \A r \in DOMAIN result : result[r] = IF r \in DOMAIN new THEN new[r] ELSE old[r]
  BY DEF Overwrite
<1> HIDE DEF result
<1>3. DOMAIN result \subseteq RuleNames /\ \A r \in DOMAIN result : result[r] \in Severities
  BY <1>1, <1>2
<1>4. result \in Settings
  BY <1>2, <1>3, FunctionsInto DEF Settings
<1>5. QED
  BY <1>4 DEF result

LEMMA OneSetting ==
  ASSUME NEW D, D \subseteq RuleNames, NEW severity \in Severities
  PROVE  [r \in D |-> severity] \in Settings /\ DOMAIN [r \in D |-> severity] = D
<1> DEFINE f == [r \in D |-> severity]
<1>1. DOMAIN f = D /\ f = [r \in DOMAIN f |-> f[r]] /\ \A r \in DOMAIN f : f[r] \in Severities
  OBVIOUS
<1> HIDE DEF f
<1>2. f \in Settings
  BY <1>1, FunctionsInto DEF Settings
<1>3. QED
  BY <1>1, <1>2 DEF f

\* What a profile's export says, and what an import makes of it.
LEMMA ExportIsSet ==
  ASSUME ProfileInv, SettingsSound, NEW p \in ProfileIds, ~Cyclic(p)
  PROVE  Imported(Export(p)) \in Settings
<1> DEFINE rules == ResolveEffectiveRules(p)
           doc == Export(p)
           Off1(x) == x.active /\ ~Off(x.severity)
           Entry(r) == CHOOSE x \in doc : x.key = r
           Value(r) == IF Off1(Entry(r)) THEN Entry(r).severity ELSE "OFF"
           keys == {x.key : x \in doc}
           result == [r \in keys |-> Value(r)]
<1>1. rules \in Mergers
  <2>1. Depth(p) \in 0..Depth(p)
    BY ChainIsPath, ParentIsKin
  <2>2. QED
    BY <2>1, MergingGoesDown DEF ResolveEffectiveRules
<1>2. doc = {[key |-> r, severity |-> rules[r].severity, active |-> ~Off(rules[r].severity)] : r \in DOMAIN rules}
  BY DEF Export
<1>3. DOMAIN rules \subseteq RuleNames /\ \A r \in DOMAIN rules : rules[r].severity \in Severities
  <2>1. DOMAIN rules \subseteq RuleNames /\ \A r \in DOMAIN rules : rules[r] \in Entries
    BY <1>1, FunctionsInto DEF Mergers
  <2>2. QED
    BY <2>1 DEF Entries
<1> HIDE DEF rules, doc
<1>4. \A x \in doc : x.key \in RuleNames /\ x.severity \in Severities
  BY <1>2, <1>3
<1>5. ASSUME NEW r \in keys PROVE r \in RuleNames /\ Value(r) \in Severities
  <2>1. \E x \in doc : x.key = r
    BY <1>5
  <2>2. Entry(r) \in doc /\ Entry(r).key = r
    BY <2>1
  <2> HIDE DEF Entry
  <2>3. QED
    BY <1>4, <2>2 DEF Severities
<1>6. Imported(doc) = result
  BY DEF Imported
<1> HIDE DEF Value, keys
<1>7. DOMAIN result = keys /\ result = [r \in DOMAIN result |-> result[r]] /\ \A r \in keys : result[r] = Value(r)
  OBVIOUS
<1> HIDE DEF result
<1>8. result \in Settings
  <2>1. DOMAIN result \subseteq RuleNames /\ \A r \in DOMAIN result : result[r] \in Severities
    BY <1>5, <1>7
  <2>2. QED
    BY <1>7, <2>1, FunctionsInto DEF Settings
<1>9. QED
  BY <1>6, <1>8 DEF doc

LEMMA SettingsOutlast ==
  ASSUME ProfileInv, SettingsSound, ProfilesGo, \A p \in DOMAIN profiles' : activations'[p] \in Settings,
         published' \subseteq RuleNames \ BundledRules,
         \/ acting' = acting
         \/ \E u \in Stewards : \E request : /\ acting' = [acting EXCEPT ![u] = request]
                                            /\ SetsSettings(request, DOMAIN profiles')
  PROVE  SettingsSound'
<1>1. \A u \in Stewards : SetsSettings(acting[u], DOMAIN profiles')
  BY DEF SettingsSound, SetsSettings, ProfilesGo
<1>2. ASSUME NEW u \in Stewards, NEW request, acting' = [acting EXCEPT ![u] = request],
             SetsSettings(request, DOMAIN profiles')
      PROVE  \A v \in Stewards : SetsSettings(acting'[v], DOMAIN profiles')
  <2>1. \A v \in Stewards : acting'[v] = IF v = u THEN request ELSE acting[v]
    BY <1>2 DEF ProfileInv, ProfileRequestsSound
  <2>2. QED
    BY <1>1, <1>2, <2>1
<1>3. \A v \in Stewards : SetsSettings(acting'[v], DOMAIN profiles')
  BY <1>1, <1>2
<1>4. QED
  BY <1>3 DEF SettingsSound

\* A step of a request that writes no tables.
LEMMA SettingsStay ==
  ASSUME ProfileInv, SettingsSound, UNCHANGED profileTables,
         \/ acting' = acting
         \/ \E u \in Stewards : \E request : /\ acting' = [acting EXCEPT ![u] = request]
                                            /\ SetsSettings(request, DOMAIN profiles)
  PROVE  SettingsSound'
<1>1. profiles' = profiles /\ activations' = activations /\ projectProfiles' = projectProfiles /\ published' = published
  BY DEF profileTables
<1>2. ProfilesGo
  BY <1>1, TablesStay
<1>3. /\ \A p \in DOMAIN profiles' : activations'[p] \in Settings
      /\ published' \subseteq RuleNames \ BundledRules
  BY <1>1 DEF SettingsSound
<1>4. \/ acting' = acting
      \/ \E u \in Stewards : \E request : /\ acting' = [acting EXCEPT ![u] = request]
                                         /\ SetsSettings(request, DOMAIN profiles')
  BY <1>1
<1>5. QED
  BY <1>2, <1>3, <1>4, SettingsOutlast

LEMMA FreeIsSet == \A ids : SetsSettings(Unoccupied, ids)
BY DEF SetsSettings, Unoccupied

LEMMA SettingsBegun ==
  ASSUME ProfileInv, SettingsSound, UNCHANGED profileTables, NEW u \in Stewards, NEW request,
         Undertake(u, request) \/ Proceed(u, request), SetsSettings(request, DOMAIN profiles)
  PROVE  SettingsSound'
<1>1. acting' = [acting EXCEPT ![u] = request]
  BY DEF Undertake, Proceed
<1>2. QED
  BY <1>1, SettingsStay

LEMMA RequestsBeginSet ==
  ASSUME ProfileInv, SettingsSound, NEW u \in Stewards
  PROVE  /\ \A l, name, q, b : CreateProfile(u, name, l, q, b) => SettingsSound'
         /\ \A name, q, b, p : UpdateProfile(u, p, name, q, b) => SettingsSound'
         /\ \A p : SetDefault(u, p) \/ CopyProfile(u, p) => SettingsSound'
         /\ \A p : \A r \in RuleNames, s \in Severities : ActivateRule(u, p, r, s) => SettingsSound'
         /\ \A p : \A q \in ProfileIds : ~Cyclic(q) /\ ImportProfile(u, p, Export(q)) => SettingsSound'
         /\ \A project, l, p : AssignToProject(u, project, l, p) => SettingsSound'
<1>1. ASSUME NEW l, NEW name, NEW q, NEW b, CreateProfile(u, name, l, q, b) PROVE SettingsSound'
  <2> DEFINE request == [op |-> "create", row |-> Profile(name, l, q, b, FALSE)]
  <2>1. Undertake(u, request) /\ UNCHANGED profileTables
    BY <1>1 DEF CreateProfile
  <2>2. SetsSettings(request, DOMAIN profiles)
    BY DEF SetsSettings
  <2> HIDE DEF request
  <2>3. QED
    BY <2>1, <2>2, SettingsBegun
<1>2. ASSUME NEW name, NEW q, NEW b, NEW p, UpdateProfile(u, p, name, q, b) PROVE SettingsSound'
  <2> DEFINE request == [op |-> "update", profile |-> p, name |-> name, parent |-> q, isDefault |-> b]
  <2>1. Undertake(u, request) /\ UNCHANGED profileTables
    BY <1>2 DEF UpdateProfile
  <2>2. SetsSettings(request, DOMAIN profiles)
    BY DEF SetsSettings
  <2> HIDE DEF request
  <2>3. QED
    BY <2>1, <2>2, SettingsBegun
<1>3. ASSUME NEW p, SetDefault(u, p) PROVE SettingsSound'
  <2> DEFINE request == [op |-> "default", profile |-> p, language |-> profiles[p].language]
  <2>1. Undertake(u, request) /\ UNCHANGED profileTables
    BY <1>3 DEF SetDefault
  <2>2. SetsSettings(request, DOMAIN profiles)
    BY DEF SetsSettings
  <2> HIDE DEF request
  <2>3. QED
    BY <2>1, <2>2, SettingsBegun
<1>4. ASSUME NEW p, CopyProfile(u, p) PROVE SettingsSound'
  <2> DEFINE request == [op |-> "copy", source |-> p,
                         row |-> Profile("other", profiles[p].language, profiles[p].parent, FALSE, FALSE)]
  <2>1. Undertake(u, request) /\ UNCHANGED profileTables /\ p \in DOMAIN profiles
    BY <1>4 DEF CopyProfile, ProfileIds
  <2>2. SetsSettings(request, DOMAIN profiles)
    BY <2>1 DEF SetsSettings
  <2> HIDE DEF request
  <2>3. QED
    BY <2>1, <2>2, SettingsBegun
<1>5. ASSUME NEW p, NEW rules \in Settings, UNCHANGED profileTables,
             Undertake(u, [op |-> "rules", profile |-> p, rules |-> rules])
      PROVE  SettingsSound'
  <2>1. SetsSettings([op |-> "rules", profile |-> p, rules |-> rules], DOMAIN profiles)
    BY DEF SetsSettings
  <2>2. QED
    BY <1>5, <2>1, SettingsBegun
<1>6. ASSUME NEW p, NEW r \in RuleNames, NEW s \in Severities, ActivateRule(u, p, r, s) PROVE SettingsSound'
  <2> DEFINE rules == [t \in {r} |-> s]
  <2>1. rules \in Settings
    BY OneSetting
  <2>2. Undertake(u, [op |-> "rules", profile |-> p, rules |-> rules]) /\ UNCHANGED profileTables
    BY <1>6 DEF ActivateRule
  <2> HIDE DEF rules
  <2>3. QED
    BY <1>5, <2>1, <2>2
<1>7. ASSUME NEW p, NEW q \in ProfileIds, ~Cyclic(q), ImportProfile(u, p, Export(q)) PROVE SettingsSound'
  <2> DEFINE rules == Imported(Export(q))
  <2>1. rules \in Settings
    BY <1>7, ExportIsSet
  <2>2. Undertake(u, [op |-> "rules", profile |-> p, rules |-> rules]) /\ UNCHANGED profileTables
    BY <1>7 DEF ImportProfile
  <2> HIDE DEF rules
  <2>3. QED
    BY <1>5, <2>1, <2>2
<1>8. ASSUME NEW project, NEW l, NEW p, AssignToProject(u, project, l, p) PROVE SettingsSound'
  <2> DEFINE request == [op |-> "assign", project |-> project, language |-> l, profile |-> p]
  <2>1. Undertake(u, request) /\ UNCHANGED profileTables
    BY <1>8 DEF AssignToProject
  <2>2. SetsSettings(request, DOMAIN profiles)
    BY DEF SetsSettings
  <2> HIDE DEF request
  <2>3. QED
    BY <2>1, <2>2, SettingsBegun
<1>9. QED
  BY <1>1, <1>2, <1>3, <1>4, <1>6, <1>7, <1>8

LEMMA RulesWritten ==
  ASSUME ProfileInv, SettingsSound, NEW p \in ProfileIds, NEW rules \in Settings,
         UNCHANGED <<profiles, projectProfiles>>,
         activations' = [activations EXCEPT ![p] = Overwrite(@, rules)]
  PROVE  ProfilesGo /\ \A q \in DOMAIN profiles' : activations'[q] \in Settings
<1>1. p \in DOMAIN profiles /\ activations[p] \in Settings
  BY DEF SettingsSound, ProfileIds
<1>2. Overwrite(activations[p], rules) \in Settings
  BY <1>1, OverwriteIsSet
<1>3. DOMAIN activations = DOMAIN profiles
  BY DEF ProfileInv, ProfileRowsSound
<1>4. \A q \in DOMAIN profiles : activations'[q] = IF q = p THEN Overwrite(activations[p], rules) ELSE activations[q]
  BY <1>3
<1>5. \A q \in DOMAIN profiles' : activations'[q] \in Settings
  BY <1>2, <1>4 DEF SettingsSound
<1>6. QED
  BY <1>5, RulesStored

LEMMA InsertIsSet ==
  ASSUME ProfileInv, SettingsSound, NEW row, InsertRow(row), row.language \in Languages,
         row = Profile(row.name, row.language, row.parent, row.isDefault, row.isBuiltin)
  PROVE  ProfilesGo /\ published' = published /\ \A q \in DOMAIN profiles' : activations'[q] \in Settings
<1> DEFINE nothing == <<>>
           n == Len(profiles)
<1>1. /\ profiles' = Append(profiles, row) /\ activations' = Append(activations, nothing)
      /\ published' = published
  BY DEF InsertRow
<1>2. nothing \in Settings
  BY NothingIsSet
<1> HIDE DEF nothing
<1>3. PICK S, T : profiles \in Seq(S) /\ activations \in Seq(T) /\ Len(activations) = n
  BY DEF ProfileInv, ProfileRowsSound
<1>4. /\ DOMAIN profiles' = 1..(n + 1) /\ n \in Nat
      /\ \A q \in 1..n : activations'[q] = activations[q] /\ q \in DOMAIN profiles
      /\ activations'[n + 1] = nothing
  <2>1. profiles \in Seq(S \cup {row}) /\ activations \in Seq(T \cup {nothing})
    BY <1>3
  <2>2. QED
    BY <1>1, <1>3, <2>1
<1>5. \A q \in DOMAIN profiles' : activations'[q] \in Settings
  BY <1>2, <1>4 DEF SettingsSound
<1>6. QED
  BY <1>1, <1>5, RowInserted

LEMMA StatementsSet ==
  ASSUME ProfileInv, SettingsSound, NEW u \in Stewards,
         \/ InsertProfile(u) \/ UpdateRow(u) \/ SetDefaultRow(u) \/ StoreRules(u)
         \/ InsertCopy(u) \/ ReadRules(u) \/ (\E r \in RuleNames : CopyRule(u, r)) \/ AssignRow(u)
         \/ CopyDone(u) \/ ProfileRequestFails(u)
  PROVE  SettingsSound'
<1>1. /\ ProfileRequestSound(acting[u], profiles, activations)
      /\ SetsSettings(acting[u], DOMAIN profiles)
  BY DEF ProfileInv, ProfileRequestsSound, SettingsSound
<1>2. ASSUME ProfilesGo, published' = published, \A q \in DOMAIN profiles' : activations'[q] \in Settings,
             NEW request, Proceed(u, request), SetsSettings(request, DOMAIN profiles')
      PROVE  SettingsSound'
  <2>1. /\ published' \subseteq RuleNames \ BundledRules
        /\ \E v \in Stewards : \E r : acting' = [acting EXCEPT ![v] = r] /\ SetsSettings(r, DOMAIN profiles')
    BY <1>2 DEF SettingsSound, Proceed
  <2>2. QED
    BY <1>2, <2>1, SettingsOutlast
<1>3. SetsSettings(Unoccupied, DOMAIN profiles')
  BY FreeIsSet
<1>4. ASSUME InsertProfile(u) PROVE SettingsSound'
  <2> DEFINE row == acting[u].row
  <2>1. InsertRow(row) /\ Proceed(u, Unoccupied) /\ acting[u].op = "create"
    BY <1>4 DEF InsertProfile, Complete
  <2>2. row = Profile(row.name, row.language, row.parent, row.isDefault, row.isBuiltin) /\ row.language \in Languages
    BY <1>1, <2>1 DEF ProfileRequestSound
  <2> HIDE DEF row
  <2>3. ProfilesGo /\ published' = published /\ \A q \in DOMAIN profiles' : activations'[q] \in Settings
    BY <2>1, <2>2, InsertIsSet
  <2>4. QED
    BY <1>2, <1>3, <2>1, <2>3
<1>5. ASSUME InsertCopy(u) PROVE SettingsSound'
  <2> DEFINE row == acting[u].row
             request == [op |-> "copied", source |-> acting[u].source, profile |-> Len(profiles) + 1]
  <2>1. InsertRow(row) /\ Proceed(u, request) /\ acting[u].op = "copy"
    BY <1>5 DEF InsertCopy
  <2>2. row = Profile(row.name, row.language, row.parent, row.isDefault, row.isBuiltin) /\ row.language \in Languages
    BY <1>1, <2>1 DEF ProfileRequestSound
  <2> HIDE DEF row
  <2>3. ProfilesGo /\ published' = published /\ \A q \in DOMAIN profiles' : activations'[q] \in Settings
    BY <2>1, <2>2, InsertIsSet
  <2>4. SetsSettings(request, DOMAIN profiles')
    BY <1>1, <2>1, <2>3 DEF SetsSettings, ProfilesGo
  <2> HIDE DEF request
  <2>5. QED
    BY <1>2, <2>1, <2>3, <2>4
<1>6. ASSUME UpdateRow(u) \/ SetDefaultRow(u) PROVE SettingsSound'
  <2>1. ProfilesGo
    BY <1>6, ProfileUpdated, DefaultSet
  <2>2. activations' = activations /\ published' = published /\ Proceed(u, Unoccupied)
    BY <1>6 DEF UpdateRow, SetDefaultRow, Complete
  <2>3. DOMAIN profiles' = DOMAIN profiles
    BY <1>6 DEF UpdateRow, SetDefaultRow
  <2>4. \A q \in DOMAIN profiles' : activations'[q] \in Settings
    BY <2>2, <2>3 DEF SettingsSound
  <2>5. QED
    BY <1>2, <1>3, <2>1, <2>2, <2>4
<1>7. ASSUME StoreRules(u) PROVE SettingsSound'
  <2> DEFINE p == acting[u].profile
             rules == acting[u].rules
  <2>1. /\ p \in ProfileIds /\ acting[u].op = "rules" /\ Proceed(u, Unoccupied) /\ published' = published
        /\ activations' = [activations EXCEPT ![p] = Overwrite(@, rules)] /\ UNCHANGED <<profiles, projectProfiles>>
    BY <1>7 DEF StoreRules, Complete
  <2>2. rules \in Settings
    BY <1>1, <2>1 DEF SetsSettings
  <2> HIDE DEF p, rules
  <2>3. ProfilesGo /\ \A q \in DOMAIN profiles' : activations'[q] \in Settings
    BY <2>1, <2>2, RulesWritten
  <2>4. QED
    BY <1>2, <1>3, <2>1, <2>3
<1>8. ASSUME ReadRules(u) PROVE SettingsSound'
  <2> DEFINE rules == activations[acting[u].source]
             request == [op |-> "copying", profile |-> acting[u].profile, rules |-> rules, left |-> DOMAIN rules]
  <2>1. acting[u].op = "copied" /\ UNCHANGED profileTables /\ Proceed(u, request)
    BY <1>8 DEF ReadRules
  <2>2. rules \in Settings
    BY <1>1, <2>1 DEF SetsSettings, SettingsSound
  <2> HIDE DEF rules
  <2>3. SetsSettings(request, DOMAIN profiles)
    BY <2>2 DEF SetsSettings
  <2> HIDE DEF request
  <2>4. QED
    BY <2>1, <2>3, SettingsBegun
<1>9. ASSUME NEW r \in RuleNames, CopyRule(u, r) PROVE SettingsSound'
  <2> DEFINE p == acting[u].profile
             severity == acting[u].rules[r]
             rule == [s \in {r} |-> severity]
             request == [acting[u] EXCEPT !.left = @ \ {r}]
  <2>1. /\ acting[u].op = "copying" /\ r \in acting[u].left /\ p \in ProfileIds
        /\ activations' = [activations EXCEPT ![p] = Overwrite(@, rule)]
        /\ Proceed(u, request) /\ published' = published /\ UNCHANGED <<profiles, projectProfiles>>
    BY <1>9 DEF CopyRule
  <2>2. acting[u].rules \in Settings /\ acting[u].left \subseteq DOMAIN acting[u].rules
    BY <1>1, <2>1 DEF SetsSettings
  <2>3. severity \in Severities
    BY <2>1, <2>2, FunctionsInto DEF Settings
  <2>4. rule \in Settings
    <3> HIDE DEF severity
    <3>1. QED
      BY <2>3, OneSetting
  <2>5. request = [op |-> "copying", profile |-> p, rules |-> acting[u].rules, left |-> acting[u].left \ {r}]
    BY <1>1, <2>1 DEF ProfileRequestSound
  <2> HIDE DEF p, rule, request
  <2>6. ProfilesGo /\ \A q \in DOMAIN profiles' : activations'[q] \in Settings
    BY <2>1, <2>4, RulesWritten
  <2>7. SetsSettings(request, DOMAIN profiles')
    BY <2>2, <2>5 DEF SetsSettings
  <2>8. QED
    BY <1>2, <2>1, <2>6, <2>7
<1>10. ASSUME AssignRow(u) PROVE SettingsSound'
  <2>1. profiles' = profiles /\ activations' = activations /\ published' = published /\ Proceed(u, Unoccupied)
    BY <1>10 DEF AssignRow, Complete
  <2>2. ProfilesGo /\ \A q \in DOMAIN profiles' : activations'[q] \in Settings
    BY <2>1 DEF ProfilesGo, Ids, ProfileIds, SettingsSound
  <2>3. QED
    BY <1>2, <1>3, <2>1, <2>2
<1>11. ASSUME CopyDone(u) \/ ProfileRequestFails(u) PROVE SettingsSound'
  <2>1. Proceed(u, Unoccupied) /\ UNCHANGED profileTables
    BY <1>11 DEF CopyDone, ProfileRequestFails, Complete
  <2>2. SetsSettings(Unoccupied, DOMAIN profiles)
    BY FreeIsSet
  <2>3. QED
    BY <2>1, <2>2, SettingsBegun
<1>12. QED
  BY <1>4, <1>5, <1>6, <1>7, <1>8, <1>9, <1>10, <1>11

\* When the server starts, the profiles of its name get the bundled rules.
LEMMA SyncIsSet == ASSUME ProfileInv, SettingsSound, SyncBuiltInProfiles PROVE SettingsSound'
<1> DEFINE nothing == <<>>
           Bundled(l) == [r \in {s \in BundledRules : RuleLanguage[s] = l} |-> DefaultSeverity]
           Old(p) == IF p \in DOMAIN activations THEN activations[p] ELSE nothing
           Now(p) == IF profiles'[p] # Gone /\ profiles'[p].name = "Ollanta Way"
                     THEN Overwrite(Old(p), Bundled(profiles'[p].language)) ELSE Old(p)
<1>1. /\ activations' = [p \in DOMAIN profiles' |-> Now(p)]
      /\ published' = published /\ acting' = acting
  BY DEF SyncBuiltInProfiles
<1>2. \A p : Old(p) \in Settings
  <2>1. nothing \in Settings
    BY NothingIsSet
  <2>2. DOMAIN activations = DOMAIN profiles
    BY DEF ProfileInv, ProfileRowsSound
  <2> HIDE DEF nothing
  <2>3. QED
    BY <2>1, <2>2 DEF SettingsSound
<1>3. ASSUME NEW l PROVE Bundled(l) \in Settings
  <2> DEFINE D == {s \in BundledRules : RuleLanguage[s] = l}
  <2>1. D \subseteq RuleNames
    BY ProfileAssumption DEF RuleNames
  <2>2. DefaultSeverity \in Severities
    BY DEF DefaultSeverity, Severities
  <2> HIDE DEF D
  <2>3. [r \in D |-> DefaultSeverity] \in Settings
    BY <2>1, <2>2, OneSetting
  <2>4. QED
    BY <2>3 DEF D
<1> HIDE DEF nothing, Old, Bundled
<1>4. ASSUME NEW p \in DOMAIN profiles' PROVE activations'[p] \in Settings
  <2>1. activations'[p] = Now(p)
    BY <1>1
  <2>2. QED
    BY <1>2, <1>3, <2>1, OverwriteIsSet
<1>5. ProfilesGo
  BY ProfilesSynced
<1>6. published' \subseteq RuleNames \ BundledRules
  BY <1>1 DEF SettingsSound
<1>7. QED
  BY <1>1, <1>4, <1>5, <1>6, SettingsOutlast

LEMMA DeleteIsSet == ASSUME ProfileInv, SettingsSound, NEW p \in ProfileIds, DeleteProfile(p) PROVE SettingsSound'
<1> DEFINE nothing == <<>>
<1>1. /\ activations' = [activations EXCEPT ![p] = nothing] /\ DOMAIN profiles' = DOMAIN profiles
      /\ published' = published /\ acting' = acting
  BY DEF DeleteProfile
<1>2. nothing \in Settings
  BY NothingIsSet
<1> HIDE DEF nothing
<1>3. DOMAIN activations = DOMAIN profiles
  BY DEF ProfileInv, ProfileRowsSound
<1>4. \A q \in DOMAIN profiles' : activations'[q] \in Settings
  BY <1>1, <1>2, <1>3 DEF SettingsSound
<1>5. ProfilesGo
  BY ProfileDeleted
<1>6. published' \subseteq RuleNames \ BundledRules
  BY <1>1 DEF SettingsSound
<1>7. QED
  BY <1>1, <1>4, <1>5, <1>6, SettingsOutlast

LEMMA SettingsAtFirst == ProfileInit => SettingsSound
<1> SUFFICES ASSUME ProfileInit PROVE SettingsSound
  OBVIOUS
<1> DEFINE nothing == <<>>
           n == Cardinality(Languages)
<1>1. /\ activations = [k \in 1..n |-> nothing] /\ DOMAIN profiles = 1..n /\ published = {}
      /\ \A u \in Stewards : acting[u] = Unoccupied
  BY DEF ProfileInit
<1>2. nothing \in Settings
  BY NothingIsSet
<1> HIDE DEF nothing
<1>3. QED
  BY <1>1, <1>2, FreeIsSet DEF SettingsSound

LEMMA SettingsKept == ProfileInv /\ SettingsSound /\ [ProfileNext]_profileVars => SettingsSound'
<1> SUFFICES ASSUME ProfileInv, SettingsSound, [ProfileNext]_profileVars PROVE SettingsSound'
  OBVIOUS
<1>1. CASE SyncBuiltInProfiles
  BY <1>1, SyncIsSet
<1>2. ASSUME NEW p \in ProfileIds, DeleteProfile(p) PROVE SettingsSound'
  BY <1>2, DeleteIsSet
<1>3. ASSUME NEW r \in RuleNames \ BundledRules, CustomRuleChanges(r) PROVE SettingsSound'
  <2>1. profiles' = profiles /\ activations' = activations /\ projectProfiles' = projectProfiles /\ acting' = acting
    BY <1>3 DEF CustomRuleChanges
  <2>2. published' \subseteq RuleNames \ BundledRules
    BY <1>3 DEF CustomRuleChanges, SettingsSound
  <2>3. ProfilesGo /\ \A q \in DOMAIN profiles' : activations'[q] \in Settings
    BY <2>1, TablesStay DEF SettingsSound
  <2>4. QED
    BY <2>1, <2>2, <2>3, SettingsOutlast
<1>4. CASE UNCHANGED profileVars
  BY <1>4, SettingsStay DEF profileVars, profileTables
<1> DEFINE Begins(u) ==
      \/ \E l \in Languages, q \in ProfileIds \cup {Root}, b \in BOOLEAN : CreateProfile(u, "other", l, q, b)
      \/ \E p \in ProfileIds, q \in ProfileIds \cup {Root}, b \in BOOLEAN, name \in {"other", "Ollanta Way"} :
            (name = profiles[p].name \/ profiles[p].isBuiltin) /\ UpdateProfile(u, p, name, q, b)
      \/ \E p \in ProfileIds : SetDefault(u, p) \/ CopyProfile(u, p)
      \/ \E p \in ProfileIds, r \in RuleNames, s \in Severities : ActivateRule(u, p, r, s)
      \/ \E p, q \in ProfileIds : ~Cyclic(q) /\ ImportProfile(u, p, Export(q))
      \/ \E project \in Projects, l \in Languages, p \in ProfileIds : AssignToProject(u, project, l, p)
<1>5. ASSUME NEW u \in Stewards, Begins(u) PROVE SettingsSound'
  BY <1>5, RequestsBeginSet
<1> DEFINE Writes(u) ==
      \/ InsertProfile(u) \/ UpdateRow(u) \/ SetDefaultRow(u) \/ StoreRules(u)
      \/ InsertCopy(u) \/ ReadRules(u) \/ (\E r \in RuleNames : CopyRule(u, r)) \/ AssignRow(u)
      \/ CopyDone(u) \/ ProfileRequestFails(u)
<1>6. ASSUME NEW u \in Stewards, Writes(u) PROVE SettingsSound'
  BY <1>6, StatementsSet
<1>7. ProfileNext => \/ SyncBuiltInProfiles \/ \E p \in ProfileIds : DeleteProfile(p)
                     \/ \E r \in RuleNames \ BundledRules : CustomRuleChanges(r)
                     \/ \E u \in Stewards : Begins(u) \/ Writes(u)
  BY DEF ProfileNext
<1> HIDE DEF Begins, Writes
<1>8. QED
  BY <1>1, <1>2, <1>3, <1>4, <1>5, <1>6, <1>7

LEMMA ProfilesHold == ProfileSpec => [](ProfileInv /\ SettingsSound)
BY ProfilesAtFirst, ProfilesStep, SettingsAtFirst, SettingsKept, PTL DEF ProfileSpec

\* The tables of the profiles stay well typed: references lead, and a profile has a severity for
\* each rule it mentions, whatever was imported, copied, synchronised and deleted meanwhile.
THEOREM ProfilesStayInOrder == ProfileSpec => []ProfileTypeOK
<1>1. ProfileInv => ReferencesLead
  BY DEF ProfileInv, ProfileRowsSound, IsProfile, AssignmentsSound, ReferencesLead
<1>2. ProfileInv => DOMAIN activations = DOMAIN profiles
  BY DEF ProfileInv, ProfileRowsSound
<1>3. ASSUME SettingsSound, NEW p \in ProfileIds
      PROVE  DOMAIN activations[p] \subseteq RuleNames /\ \A r \in DOMAIN activations[p] : activations[p][r] \in Severities
  <2>1. activations[p] \in Settings
    BY <1>3 DEF SettingsSound, ProfileIds
  <2>2. QED
    BY <2>1, FunctionsInto DEF Settings
<1>4. ProfileInv /\ SettingsSound => ProfileTypeOK
  BY <1>1, <1>2, <1>3 DEF ProfileTypeOK, SettingsSound
<1>5. QED
  BY <1>4, ProfilesHold, PTL

-----------------------------------------------------------------------------
(* The policy of a project                                                 *)

\* The last profile of the chain that mentions a rule is the nearest one.
LEMMA NearestIsLast ==
  ASSUME ProfileInv, NEW p \in ProfileIds, ~Cyclic(p), NEW r, NEW i \in 1..Depth(p),
         r \in DOMAIN activations[Chain(p)[i]],
         \A j \in (i + 1)..Depth(p) : r \notin DOMAIN activations[Chain(p)[j]]
  PROVE  Nearest(p, r) = Chain(p)[i]
<1> DEFINE n == Len(profiles)
           d == Depth(p)
           up == Ancestry(p)
           Is(m) == /\ up[m] # Root /\ r \in DOMAIN activations[up[m]]
                    /\ \A j \in 0..(m - 1) : r \notin DOMAIN activations[up[j]]
           m == d - i
<1>1. /\ d \in 1..n /\ n \in Nat /\ \A k \in 0..n : up[k] # Root <=> k < d
      /\ \A k \in 1..d : Chain(p)[k] = up[d - k]
  BY ChainIsPath, ParentIsKin
<1>2. Nearest(p, r) = up[CHOOSE k \in 0..n : Is(k)]
  BY DEF Nearest
<1> HIDE DEF n, d, up
<1>3. m \in 0..n /\ m < d /\ up[m] = Chain(p)[i]
  BY <1>1 DEF d
<1>4. ASSUME NEW j \in 0..(m - 1) PROVE r \notin DOMAIN activations[up[j]]
  <2>1. d - j \in (i + 1)..d /\ d - j \in 1..d /\ d - (d - j) = j
    BY <1>1 DEF d
  <2>2. Chain(p)[d - j] = up[d - (d - j)]
    BY <1>1, <2>1
  <2>3. QED
    BY <2>1, <2>2 DEF d
<1>5. Is(m)
  BY <1>1, <1>3, <1>4
<1>6. ASSUME NEW k \in 0..n, Is(k) PROVE k = m
  <2>1. ~(k < m)
    BY <1>3, <1>4, <1>6
  <2>2. ~(m < k)
    BY <1>3, <1>5, <1>6
  <2>3. QED
    BY <1>1, <1>3, <2>1, <2>2
<1> HIDE DEF Is, m
<1>7. (CHOOSE k \in 0..n : Is(k)) = m
  BY <1>3, <1>5, <1>6
<1>8. QED
  BY <1>2, <1>3, <1>7

LEMMA EffectiveFollowsChain == ProfileInv /\ SettingsSound => EffectiveIsNearest
<1> SUFFICES ASSUME ProfileInv, SettingsSound, NEW p \in ProfileIds, ~Cyclic(p)
             PROVE  LET rules == ResolveEffectiveRules(p)
                    IN  /\ DOMAIN rules = UNION {DOMAIN activations[q] : q \in ToSet(Chain(p))}
                        /\ \A r \in DOMAIN rules : /\ rules[r].source = Nearest(p, r)
                                                   /\ rules[r].severity = activations[Nearest(p, r)][r]
  BY DEF EffectiveIsNearest
<1> DEFINE d == Depth(p)
           rules == ResolveEffectiveRules(p)
<1>1. /\ d \in 0..d /\ d \in Nat /\ DOMAIN Chain(p) = 1..d
      /\ \A i \in 1..d : Chain(p)[i] \in ProfileIds
  BY ChainIsPath, ParentIsKin
<1>2. rules \in Mergers /\ LastSays(p, d, rules)
  BY <1>1, MergingGoesDown, LastOfChainSays DEF ResolveEffectiveRules
<1> HIDE DEF rules, d
<1>3. DOMAIN rules \subseteq RuleNames
  BY <1>2, FunctionsInto DEF Mergers
<1>4. \A q \in ProfileIds : DOMAIN activations[q] \subseteq RuleNames
  <2>1. \A q \in ProfileIds : activations[q] \in Settings
    BY DEF SettingsSound, ProfileIds
  <2>2. QED
    BY <2>1, FunctionsInto DEF Settings
<1>5. DOMAIN rules = UNION {DOMAIN activations[q] : q \in ToSet(Chain(p))}
  <2>1. ToSet(Chain(p)) = {Chain(p)[i] : i \in 1..d}
    BY <1>1 DEF ToSet
  <2>2. \A r : r \in UNION {DOMAIN activations[q] : q \in ToSet(Chain(p))} <=>
               \E i \in 1..d : r \in DOMAIN activations[Chain(p)[i]]
    BY <2>1
  <2>3. \A r : r \in DOMAIN rules <=> \E i \in 1..d : r \in DOMAIN activations[Chain(p)[i]]
    BY <1>1, <1>2, <1>3, <1>4 DEF LastSays
  <2>4. QED
    BY <2>2, <2>3
<1>6. ASSUME NEW r \in DOMAIN rules
      PROVE  rules[r].source = Nearest(p, r) /\ rules[r].severity = activations[Nearest(p, r)][r]
  <2>1. PICK i \in 1..d :
          /\ r \in DOMAIN activations[Chain(p)[i]]
          /\ \A j \in (i + 1)..d : r \notin DOMAIN activations[Chain(p)[j]]
          /\ rules[r].source = Chain(p)[i] /\ rules[r].severity = activations[Chain(p)[i]][r]
    BY <1>2 DEF LastSays
  <2>2. Nearest(p, r) = Chain(p)[i]
    BY <2>1, NearestIsLast DEF d
  <2>3. QED
    BY <2>1, <2>2
<1>7. QED
  BY <1>5, <1>6 DEF rules

\* Writing the rules into a document and reading it applies the same rules.
LEMMA DocumentsAreFaithful == \A p : DocumentRules(Export(p)) = Active(ResolveEffectiveRules(p))
<1> SUFFICES ASSUME NEW p PROVE DocumentRules(Export(p)) = Active(ResolveEffectiveRules(p))
  OBVIOUS
<1> DEFINE rules == ResolveEffectiveRules(p)
           Entry(r) == [key |-> r, severity |-> rules[r].severity, active |-> ~Off(rules[r].severity)]
           doc == Export(p)
           kept == {x \in doc : x.active /\ ~Off(x.severity)}
           on == {r \in DOMAIN rules : ~Off(rules[r].severity)}
<1>1. doc = {Entry(r) : r \in DOMAIN rules}
  BY DEF Export
<1>2. \A r : /\ Entry(r).key = r /\ Entry(r).severity = rules[r].severity
             /\ Entry(r).active = ~Off(rules[r].severity)
  OBVIOUS
<1> HIDE DEF rules, Entry, doc
<1>3. kept = {Entry(r) : r \in on}
  BY <1>1, <1>2, Zenon
<1>4. {<<x.key, x.severity>> : x \in kept} = {<<r, rules[r].severity>> : r \in on}
  <2> HIDE DEF kept, on
  <2>1. QED
    BY <1>2, <1>3
<1>5. DocumentRules(doc) = {<<x.key, x.severity>> : x \in kept} /\ Active(rules) = {<<r, rules[r].severity>> : r \in on}
  BY DEF DocumentRules, Active
<1>6. QED
  BY <1>4, <1>5 DEF rules, doc

LEMMA ExportKeeps == ExportKeepsPolicy
<1> SUFFICES ASSUME NEW project \in Projects, NEW l \in Languages,
                    ProjectProfile(project, l) # Root, ServerAnswers(project),
                    DocumentAccepted(l, Export(ProjectProfile(project, l)))
             PROVE  LocalPolicy(l, Export(ProjectProfile(project, l))) = ServerPolicy(project, l)
  BY DEF ExportKeepsPolicy
<1>1. ServerPolicy(project, l) = Active(ResolveEffectiveRules(ProjectProfile(project, l)))
  BY DEF ServerPolicy, EffectiveProfile
<1>2. LocalPolicy(l, Export(ProjectProfile(project, l))) = DocumentRules(Export(ProjectProfile(project, l)))
  BY DEF LocalPolicy
<1>3. QED
  BY <1>1, <1>2, DocumentsAreFaithful

\* A rule is applied as the nearest profile up the chain that mentions it says, however profiles,
\* parents and rules were changed meanwhile, by the server and by a scanner with an exported document.
THEOREM PoliciesFollowChain == ProfileSpec => []PolicyIsNearest
<1>1. ProfileInv /\ SettingsSound => PolicyIsNearest
  BY EffectiveFollowsChain, ExportKeeps DEF PolicyIsNearest
<1>2. QED
  BY <1>1, ProfilesHold, PTL

-----------------------------------------------------------------------------
(* Quality gates                                                           *)

GateRows == [isDefault : BOOLEAN, isBuiltin : BOOLEAN]

\* Where a request that adds conditions to a gate has come to.
SavingSound ==
    /\ saving.op \in {"none", "create", "read", "copy"}
    /\ saving.op # "none" => saving.gate \in GateIds
    /\ saving.op \in {"create", "copy"} => saving = [op |-> saving.op, gate |-> saving.gate, todo |-> saving.todo]

\* A stored verdict is what the evaluation makes of the measures it is stored with.
VerdictFollows(v) ==
    v # NoScan => v.status = Evaluate(v.judged, v.total, v.new, FALSE)

GateInv ==
    /\ gates = [g \in GateIds |-> gates[g]]
    /\ conditions = [g \in GateIds |-> conditions[g]]
    /\ projectGates = [p \in GateProjects |-> projectGates[p]]
    /\ verdicts = [p \in GateProjects |-> verdicts[p]]
    /\ SavingSound
    /\ \A p \in GateProjects : VerdictFollows(verdicts[p])
    /\ GateTypeOK

LEMMA StatusOfEvaluation ==
  ASSUME NEW judged, NEW total, NEW new, NEW small
  PROVE  Evaluate(judged, total, new, small) \in {"OK", "WARN", "ERROR"}
BY DEF Evaluate

LEMMA NoRowIsNone == NoRow \notin GateRows
BY DEF NoRow, GateRows

\* The tables, with the two invariants that relate gates, conditions and assignments.
TablesSound ==
    /\ gates = [g \in GateIds |-> gates[g]]
    /\ conditions = [g \in GateIds |-> conditions[g]]
    /\ projectGates = [p \in GateProjects |-> projectGates[p]]
    /\ \A g \in GateIds : gates[g] = NoRow \/ gates[g] \in GateRows
    /\ \A g \in GateIds : gates[g] = NoRow => conditions[g] = {}
    /\ \A g \in GateIds : \A c, d \in conditions[g] : c = d \/ c.metric # d.metric \/ c.onNewCode # d.onNewCode
    /\ \A p \in GateProjects : projectGates[p] = NoGate \/ (projectGates[p] \in GateIds /\ gates[projectGates[p]] # NoRow)

LEMMA TablesSoundIsTyped ==
  GateInv <=> /\ TablesSound /\ SavingSound
              /\ verdicts = [p \in GateProjects |-> verdicts[p]]
              /\ \A p \in GateProjects : VerdictFollows(verdicts[p])
<1>1. ASSUME \A p \in GateProjects : VerdictFollows(verdicts[p])
      PROVE  \A p \in GateProjects : verdicts[p] = NoScan \/ verdicts[p].status \in {"OK", "WARN", "ERROR"}
  <2>1. ASSUME NEW p \in GateProjects, verdicts[p] # NoScan PROVE verdicts[p].status \in {"OK", "WARN", "ERROR"}
    <3>1. VerdictFollows(verdicts[p])
      BY <1>1
    <3>2. QED
      BY <2>1, <3>1, StatusOfEvaluation DEF VerdictFollows
  <2>2. QED
    BY <2>1
<1>2. GateTypeOK /\ gates = [g \in GateIds |-> gates[g]] /\ conditions = [g \in GateIds |-> conditions[g]]
      /\ projectGates = [p \in GateProjects |-> projectGates[p]] => TablesSound
  BY DEF GateTypeOK, TablesSound, StoredGates, GateRows
<1>3. ASSUME TablesSound, \A p \in GateProjects : VerdictFollows(verdicts[p]) PROVE GateTypeOK
  BY <1>1, <1>3 DEF GateTypeOK, TablesSound, StoredGates, GateRows
<1>4. QED
  BY <1>2, <1>3 DEF GateInv, TablesSound

LEMMA GatesAtFirst == GateInit => GateInv
<1> SUFFICES ASSUME GateInit PROVE GateInv
  OBVIOUS
<1>1. TablesSound
  <2>1. /\ gates = [g \in GateIds |-> IF g = BuiltinGate THEN [isDefault |-> TRUE, isBuiltin |-> TRUE] ELSE NoRow]
        /\ conditions = [g \in GateIds |-> IF g = BuiltinGate THEN ToSet(DefaultGateConditions) ELSE {}]
        /\ projectGates = [p \in GateProjects |-> NoGate]
    BY DEF GateInit
  <2>2. [isDefault |-> TRUE, isBuiltin |-> TRUE] # NoRow
    BY DEF NoRow
  <2>3. \A c, d \in ToSet(DefaultGateConditions) : c = d \/ c.metric # d.metric \/ c.onNewCode # d.onNewCode
    <3>1. DOMAIN DefaultGateConditions = 1..2
      BY DEF DefaultGateConditions
    <3>2. ToSet(DefaultGateConditions) = {DefaultGateConditions[1], DefaultGateConditions[2]}
      BY <3>1 DEF ToSet
    <3>3. DefaultGateConditions[1].metric = "bugs" /\ DefaultGateConditions[2].metric = "new_bugs"
      BY DEF DefaultGateConditions, Condition
    <3>4. QED
      BY <3>2, <3>3
  <2>4. QED
    BY <2>1, <2>2, <2>3 DEF TablesSound, GateRows
<1>2. SavingSound
  BY DEF GateInit, SavingSound, Resting
<1>3. verdicts = [p \in GateProjects |-> verdicts[p]] /\ \A p \in GateProjects : VerdictFollows(verdicts[p])
  BY DEF GateInit, VerdictFollows
<1>4. QED
  BY <1>1, <1>2, <1>3, TablesSoundIsTyped

\* A condition that does not conflict may be added to the conditions of a gate, in place of
\* others or not.
LEMMA ConditionsChange ==
  ASSUME TablesSound, NEW g \in GateIds, gates[g] # NoRow, NEW rest, NEW more,
         rest \subseteq conditions[g], more = {} \/ \E c : more = {c} /\ ~Conflicts(c, rest),
         conditions' = [conditions EXCEPT ![g] = rest \cup more],
         UNCHANGED <<gates, projectGates>>
  PROVE  TablesSound'
<1>1. conditions' = [h \in GateIds |-> IF h = g THEN rest \cup more ELSE conditions[h]]
  BY DEF TablesSound
<1>2. \A c, d \in rest \cup more : c = d \/ c.metric # d.metric \/ c.onNewCode # d.onNewCode
  BY DEF TablesSound, Conflicts
<1>3. \A h \in GateIds : \A c, d \in conditions'[h] : c = d \/ c.metric # d.metric \/ c.onNewCode # d.onNewCode
  BY <1>1, <1>2 DEF TablesSound
<1>4. \A h \in GateIds : gates'[h] = NoRow => conditions'[h] = {}
  BY <1>1 DEF TablesSound
<1>5. QED
  BY <1>1, <1>3, <1>4 DEF TablesSound

LEMMA GateWritten ==
  ASSUME TablesSound, NEW g \in GateIds, NEW row \in GateRows,
         gates' = [gates EXCEPT ![g] = row], UNCHANGED <<conditions, projectGates>>
  PROVE  TablesSound'
<1>1. gates' = [h \in GateIds |-> IF h = g THEN row ELSE gates[h]]
  BY DEF TablesSound
<1>2. row # NoRow
  BY NoRowIsNone
<1>3. \A h \in GateIds : (gates'[h] = NoRow \/ gates'[h] \in GateRows) /\ (gates'[h] = NoRow => conditions[h] = {})
  BY <1>1, <1>2 DEF TablesSound
<1>4. \A p \in GateProjects :
         projectGates[p] = NoGate \/ (projectGates[p] \in GateIds /\ gates'[projectGates[p]] # NoRow)
  BY <1>1, <1>2 DEF TablesSound
<1>5. QED
  BY <1>1, <1>3, <1>4 DEF TablesSound

\* A request that adds conditions leaves the tables sound, whatever was deleted or added meanwhile.
LEMMA SavingStep ==
  ASSUME GateInv, CreateGate \/ CopyGate \/ CopyReadsConditions \/ SaveNextCondition
  PROVE  TablesSound' /\ SavingSound' /\ verdicts' = verdicts
<1> USE TablesSoundIsTyped
<1>1. CASE CreateGate
  <2>1. PICK g \in GateIds \ StoredGates, isDefault \in BOOLEAN :
           /\ gates' = [gates EXCEPT ![g] = [isDefault |-> isDefault, isBuiltin |-> FALSE]]
           /\ saving' = [op |-> "create", gate |-> g, todo |-> DefaultGateConditions]
    BY <1>1 DEF CreateGate, Stored
  <2>2. [isDefault |-> isDefault, isBuiltin |-> FALSE] \in GateRows
    BY DEF GateRows
  <2>3. TablesSound'
    BY <1>1, <2>1, <2>2, GateWritten DEF CreateGate
  <2>4. SavingSound'
    BY <2>1 DEF SavingSound
  <2>5. QED
    BY <1>1, <2>3, <2>4 DEF CreateGate
<1>2. CASE CopyGate
  <2>1. PICK source \in StoredGates, g \in GateIds \ StoredGates :
           /\ gates' = [gates EXCEPT ![g] = [isDefault |-> FALSE, isBuiltin |-> FALSE]]
           /\ saving' = [op |-> "read", gate |-> g, source |-> source]
    BY <1>2 DEF CopyGate, Stored
  <2>2. [isDefault |-> FALSE, isBuiltin |-> FALSE] \in GateRows
    BY DEF GateRows
  <2>3. TablesSound'
    BY <1>2, <2>1, <2>2, GateWritten DEF CopyGate
  <2>4. SavingSound'
    BY <2>1 DEF SavingSound
  <2>5. QED
    BY <1>2, <2>3, <2>4 DEF CopyGate
<1>3. CASE CopyReadsConditions
  <2>1. saving.op = "read" /\ saving' = [op |-> "copy", gate |-> saving.gate, todo |-> SetToSeq(conditions[saving.source])]
        /\ UNCHANGED <<gates, conditions, projectGates, verdicts>>
    BY <1>3 DEF CopyReadsConditions, gateTables
  <2>2. SavingSound'
    BY <2>1 DEF SavingSound
  <2>3. QED
    BY <2>1, <2>2 DEF TablesSound
<1>4. CASE SaveNextCondition
  <2> DEFINE g == saving.gate
             c == Head(saving.todo)
             stored == g \in StoredGates /\ ~Conflicts(c, conditions[g])
  <2>1. /\ g \in GateIds /\ saving = [op |-> saving.op, gate |-> g, todo |-> saving.todo]
        /\ saving.op \in {"create", "copy"}
    BY <1>4 DEF SaveNextCondition, SavingSound
  <2>2. \/ saving' = Resting
        \/ saving' = [saving EXCEPT !.todo = Tail(@)]
    BY <1>4 DEF SaveNextCondition
  <2>3. SavingSound'
    BY <2>1, <2>2 DEF SavingSound, Resting
  <2>4. \/ conditions' = conditions
        \/ stored /\ conditions' = [conditions EXCEPT ![g] = @ \cup {c}]
    BY <1>4 DEF SaveNextCondition
  <2>5. UNCHANGED <<gates, projectGates, verdicts>>
    BY <1>4 DEF SaveNextCondition
  <2>6. TablesSound'
    <3>1. CASE conditions' = conditions
      BY <2>5, <3>1 DEF TablesSound
    <3>2. CASE stored /\ conditions' = [conditions EXCEPT ![g] = @ \cup {c}]
      <4>1. gates[g] # NoRow /\ conditions' = [conditions EXCEPT ![g] = conditions[g] \cup {c}]
        BY <3>2 DEF StoredGates
      <4>2. conditions[g] \subseteq conditions[g] /\ ~Conflicts(c, conditions[g])
        BY <3>2
      <4> HIDE DEF g, c, stored
      <4>3. QED
        BY <2>1, <2>5, <4>1, <4>2, ConditionsChange
    <3>3. QED
      BY <2>4, <3>1, <3>2
  <2>7. QED
    BY <2>3, <2>5, <2>6
<1>5. QED
  BY <1>1, <1>2, <1>3, <1>4

\* What administrators do in one statement keeps the tables sound.
LEMMA AdministrationStep ==
  ASSUME GateInv, UpdateGate \/ DeleteGate \/ EditConditions \/ SetDefaultGate \/ AssignGateToProject
  PROVE  TablesSound' /\ saving' = saving /\ verdicts' = verdicts
<1> USE TablesSoundIsTyped
<1>1. CASE UpdateGate
  <2>1. PICK g \in StoredGates, isDefault \in BOOLEAN : gates' = [gates EXCEPT ![g].isDefault = isDefault]
    BY <1>1 DEF UpdateGate
  <2>2. g \in GateIds /\ gates[g] \in GateRows
    BY DEF StoredGates, TablesSound
  <2>3. [gates[g] EXCEPT !.isDefault = isDefault] \in GateRows
    BY <2>2 DEF GateRows
  <2>4. gates' = [gates EXCEPT ![g] = [gates[g] EXCEPT !.isDefault = isDefault]]
    BY <2>1
  <2>5. QED
    BY <1>1, <2>2, <2>3, <2>4, GateWritten DEF UpdateGate
<1>2. CASE DeleteGate
  <2>1. PICK g \in StoredGates :
          /\ gates' = [gates EXCEPT ![g] = NoRow]
          /\ conditions' = [conditions EXCEPT ![g] = {}]
          /\ projectGates' = [p \in GateProjects |-> IF projectGates[p] = g THEN NoGate ELSE projectGates[p]]
    BY <1>2 DEF DeleteGate
  <2>2. /\ gates' = [h \in GateIds |-> IF h = g THEN NoRow ELSE gates[h]]
        /\ conditions' = [h \in GateIds |-> IF h = g THEN {} ELSE conditions[h]]
    BY <2>1 DEF TablesSound
  <2>3. /\ \A h \in GateIds : gates'[h] = NoRow \/ gates'[h] \in GateRows
        /\ \A h \in GateIds : gates'[h] = NoRow => conditions'[h] = {}
    BY <2>2 DEF TablesSound
  <2>4. \A h \in GateIds : \A c, d \in conditions'[h] : c = d \/ c.metric # d.metric \/ c.onNewCode # d.onNewCode
    BY <2>2 DEF TablesSound
  <2>5. \A p \in GateProjects :
          projectGates'[p] = NoGate \/ (projectGates'[p] \in GateIds /\ gates'[projectGates'[p]] # NoRow)
    BY <2>1, <2>2 DEF TablesSound
  <2>6. projectGates' = [p \in GateProjects |-> projectGates'[p]]
    BY <2>1
  <2>7. TablesSound'
    BY <2>2, <2>3, <2>4, <2>5, <2>6 DEF TablesSound
  <2>8. QED
    BY <1>2, <2>7 DEF DeleteGate
<1>3. CASE EditConditions
  <2>1. PICK g \in StoredGates, c \in Conditions :
          \/ ~Conflicts(c, conditions[g]) /\ conditions' = [conditions EXCEPT ![g] = @ \cup {c}]
          \/ \E d \in conditions[g] : /\ ~Conflicts(c, conditions[g] \ {d})
                                      /\ conditions' = [conditions EXCEPT ![g] = (@ \ {d}) \cup {c}]
          \/ c \in conditions[g] /\ conditions' = [conditions EXCEPT ![g] = @ \ {c}]
    BY <1>3 DEF EditConditions
  <2>2. PICK rest, more : /\ rest \subseteq conditions[g]
                          /\ more = {} \/ \E e : more = {e} /\ ~Conflicts(e, rest)
                          /\ conditions' = [conditions EXCEPT ![g] = rest \cup more]
    <3>1. CASE ~Conflicts(c, conditions[g]) /\ conditions' = [conditions EXCEPT ![g] = @ \cup {c}]
      BY <3>1
    <3>2. CASE \E d \in conditions[g] : /\ ~Conflicts(c, conditions[g] \ {d})
                                        /\ conditions' = [conditions EXCEPT ![g] = (@ \ {d}) \cup {c}]
      <4>1. PICK d \in conditions[g] : /\ ~Conflicts(c, conditions[g] \ {d})
                                       /\ conditions' = [conditions EXCEPT ![g] = (@ \ {d}) \cup {c}]
        BY <3>2
      <4>2. conditions[g] \ {d} \subseteq conditions[g]
        OBVIOUS
      <4>3. conditions' = [conditions EXCEPT ![g] = (conditions[g] \ {d}) \cup {c}]
        BY <4>1
      <4>4. QED
        BY <4>1, <4>2, <4>3
    <3>3. CASE c \in conditions[g] /\ conditions' = [conditions EXCEPT ![g] = @ \ {c}]
      <4>1. conditions' = [conditions EXCEPT ![g] = (conditions[g] \ {c}) \cup {}]
        BY <3>3
      <4>2. QED
        BY <4>1
    <3>4. QED
      BY <2>1, <3>1, <3>2, <3>3
  <2>3. g \in GateIds /\ gates[g] # NoRow
    BY DEF StoredGates
  <2>4. UNCHANGED <<gates, projectGates, saving, verdicts>>
    BY <1>3 DEF EditConditions
  <2>5. QED
    BY <2>2, <2>3, <2>4, ConditionsChange
<1>4. CASE SetDefaultGate
  <2>1. PICK id \in GateIds :
          gates' = [g \in GateIds |-> IF g \in StoredGates THEN [gates[g] EXCEPT !.isDefault = (g = id)] ELSE NoRow]
    BY <1>4 DEF SetDefaultGate
  <2>2. ASSUME NEW g \in GateIds
        PROVE  /\ gates'[g] = NoRow \/ gates'[g] \in GateRows
               /\ gates'[g] = NoRow <=> gates[g] = NoRow
    <3>1. CASE gates[g] = NoRow
      BY <2>1, <3>1 DEF StoredGates
    <3>2. CASE gates[g] # NoRow
      <4>1. gates[g] \in GateRows /\ gates'[g] = [gates[g] EXCEPT !.isDefault = (g = id)]
        BY <2>1, <3>2 DEF StoredGates, TablesSound
      <4>2. gates'[g] \in GateRows
        BY <4>1 DEF GateRows
      <4>3. QED
        BY <3>2, <4>2, NoRowIsNone
    <3>3. QED
      BY <3>1, <3>2
  <2>3. gates' = [g \in GateIds |-> gates'[g]]
    BY <2>1
  <2>4. QED
    BY <1>4, <2>2, <2>3 DEF SetDefaultGate, TablesSound
<1>5. CASE AssignGateToProject
  <2>1. PICK p \in GateProjects, g \in StoredGates : projectGates' = [projectGates EXCEPT ![p] = g]
    BY <1>5 DEF AssignGateToProject
  <2>2. projectGates' = [q \in GateProjects |-> IF q = p THEN g ELSE projectGates[q]]
    BY <2>1 DEF TablesSound
  <2>3. QED
    BY <1>5, <2>2 DEF AssignGateToProject, TablesSound, StoredGates
<1>6. QED
  BY <1>1, <1>2, <1>3, <1>4, <1>5

\* A scan is stored with the verdict on its measures; no lines make a changeset small, since 0
\* is passed as the limit.
LEMMA JudgeStep ==
  ASSUME GateInv, NEW judged, Judge(judged)
  PROVE  /\ verdicts' = [p \in GateProjects |-> verdicts'[p]]
         /\ \A p \in GateProjects : VerdictFollows(verdicts'[p])
<1> DEFINE total == Measures(judging.payload)
           new == NewCodeMeasures(total, judging.prev)
           small == Small(ChangedLines(judging.payload, judging.prev), 0)
           verdict == [status |-> Evaluate(judged, total, new, small), judged |-> judged,
                       total |-> total, new |-> new, lines |-> judging.payload.lines]
<1>1. verdicts' = [verdicts EXCEPT ![judging.project] = verdict]
  BY DEF Judge
<1>2. small = FALSE
  BY DEF Small
<1>3. VerdictFollows(verdict)
  BY <1>2 DEF VerdictFollows
<1> HIDE DEF total, new, small, verdict
<1>4. verdicts' = [p \in GateProjects |-> IF p = judging.project THEN verdict ELSE verdicts[p]]
  BY <1>1 DEF GateInv
<1>5. QED
  BY <1>3, <1>4 DEF GateInv

LEMMA GatesStep == GateInv /\ [GateNext]_gateVars => GateInv'
<1> SUFFICES ASSUME GateInv, [GateNext]_gateVars PROVE GateInv'
  OBVIOUS
<1> DEFINE VerdictsFollow == /\ verdicts = [p \in GateProjects |-> verdicts[p]]
                             /\ \A p \in GateProjects : VerdictFollows(verdicts[p])
<1>1. GateInv <=> TablesSound /\ SavingSound /\ VerdictsFollow
  BY TablesSoundIsTyped
<1>2. GateInv' <=> TablesSound' /\ SavingSound' /\ VerdictsFollow'
  BY TablesSoundIsTyped, PTL
<1>3. CASE CreateGate \/ CopyGate \/ CopyReadsConditions \/ SaveNextCondition
  BY <1>1, <1>2, <1>3, SavingStep
<1>4. CASE UpdateGate \/ DeleteGate \/ EditConditions \/ SetDefaultGate \/ AssignGateToProject
  BY <1>1, <1>2, <1>4, AdministrationStep DEF SavingSound
<1>5. CASE ReadGate \/ ReadConditions \/ ReadFails
  <2>1. UNCHANGED <<gates, conditions, projectGates, saving>>
    BY <1>5 DEF ReadGate, ReadConditions, ReadFails, gateTables
  <2>2. verdicts' = verdicts \/ \E judged : Judge(judged)
    BY <1>5 DEF ReadGate, ReadConditions, ReadFails
  <2>3. VerdictsFollow'
    BY <1>1, <2>2, JudgeStep
  <2>4. QED
    BY <1>1, <1>2, <2>1, <2>3 DEF TablesSound, SavingSound
<1>6. CASE \/ \E p \in GateProjects, payload \in Payloads : BeginEvaluation(p, payload)
           \/ SetPeriod \/ DeletePeriod \/ UNCHANGED gateVars
  <2>1. UNCHANGED <<gates, conditions, projectGates, saving, verdicts>>
    BY <1>6 DEF BeginEvaluation, SetPeriod, DeletePeriod, gateTables, gateVars
  <2>2. QED
    BY <1>1, <1>2, <2>1 DEF TablesSound, SavingSound
<1>7. QED
  BY <1>3, <1>4, <1>5, <1>6 DEF GateNext

\* A scan that is blocked has a condition that fails: the evaluation and the overview compare
\* alike where the operator is one the evaluation knows.
LEMMA RefusalsHaveReasons == GateInv => RefusalHasReason
<1> SUFFICES ASSUME GateInv, NEW p \in GateProjects, ReviewStatus(p) = "blocked"
             PROVE  \/ Reasons({c \in verdicts[p].judged : ~c.onNewCode}, verdicts[p].total, <<>>) # {}
                    \/ Evaluate({c \in verdicts[p].judged : c.onNewCode}, <<>>, verdicts[p].new, FALSE) = "ERROR"
  BY DEF RefusalHasReason
<1> DEFINE v == verdicts[p]
           Of(c) == ConditionStatus(c, v.total, v.new, FALSE)
<1>1. v # NoScan /\ v.status \notin {"OK", "WARN"}
  BY DEF ReviewStatus
<1>2. v.status = Evaluate(v.judged, v.total, v.new, FALSE)
  BY <1>1 DEF GateInv, VerdictFollows
<1>3. PICK c \in v.judged : Of(c) = "ERROR"
  BY <1>1, <1>2 DEF Evaluate
<1>4. CASE c.onNewCode
  <2>1. ConditionStatus(c, <<>>, v.new, FALSE) = "ERROR"
    BY <1>3, <1>4 DEF ConditionStatus
  <2>2. QED
    BY <1>4, <2>1 DEF Evaluate
<1>5. CASE ~c.onNewCode
  <2>1. c.metric \in DOMAIN v.total /\ Violated(c.op, v.total[c.metric], c.threshold)
    BY <1>3, <1>5 DEF ConditionStatus
  <2>2. ViolatesOverview(c.op, v.total[c.metric], c.threshold)
    BY <2>1 DEF Violated, ViolatesOverview, UpperCase
  <2>3. c \in Reasons({d \in v.judged : ~d.onNewCode}, v.total, <<>>)
    BY <1>5, <2>1, <2>2 DEF Reasons
  <2>4. QED
    BY <2>3
<1>6. QED
  BY <1>4, <1>5

LEMMA MinOfNumbers ==
  ASSUME NEW S, S \subseteq Nat, S # {}
  PROVE  Min(S) \in S /\ \A k \in S : Min(S) <= k
BY LeastOfNumbers DEF Min

\* What a scan of the period is compared with does not lie before the period.
LEMMA BaselineHolds ==
  ASSUME NEW scans \in Histories \ {<<>>}, NEW days \in 1..2
  PROVE  LET id == ResolveNewCode("number_of_days", days, scans)
             at == CHOOSE i \in DOMAIN scans : scans[i].id = id
         IN  /\ scans[at].day >= scans[1].day - days
             /\ \A i \in DOMAIN scans : scans[i].day >= scans[1].day - days => i <= at
<1> DEFINE Old(i) == scans[i].day < scans[1].day - days
           older == {i \in DOMAIN scans : Old(i)}
           place == IF older = {} THEN Len(scans) ELSE Min(older) - 1
<1>1. /\ Len(scans) \in Nat \ {0} /\ DOMAIN scans = 1..Len(scans)
      /\ \A i \in DOMAIN scans : scans[i].day \in Int
  <2>1. scans \in Seq(Analyses) /\ scans # <<>>
    BY GateAssumption
  <2>2. Len(scans) \in Nat \ {0} /\ DOMAIN scans = 1..Len(scans) /\ \A i \in DOMAIN scans : scans[i] \in Analyses
    BY <2>1
  <2>3. QED
    BY <2>2 DEF Analyses
<1>2. \A i, j \in DOMAIN scans : i < j => scans[i].id # scans[j].id /\ scans[i].day >= scans[j].day
  BY GateAssumption
<1>3. ResolveNewCode("number_of_days", days, scans) = ResolveNumberOfDays(scans, days)
  BY DEF ResolveNewCode
<1>4. ResolveNumberOfDays(scans, days) = scans[place].id
  BY DEF ResolveNumberOfDays
<1>5. 1 \in DOMAIN scans /\ ~Old(1)
  BY <1>1
<1>6. /\ place \in DOMAIN scans /\ ~Old(place)
      /\ \A i \in DOMAIN scans : ~Old(i) => i <= place
  <2>1. CASE older = {}
    BY <1>1, <2>1
  <2>2. CASE older # {}
    <3> HIDE DEF Old
    <3>0. older \subseteq Nat
      BY <1>1
    <3>1. Min(older) \in older /\ \A k \in older : Min(older) <= k
      BY <2>2, <3>0, MinOfNumbers
    <3>2. Min(older) \in 2..Len(scans) /\ place = Min(older) - 1
      BY <1>1, <1>5, <2>2, <3>1
    <3>3. place \in DOMAIN scans /\ ~Old(place)
      <4>1. place \in DOMAIN scans /\ Min(older) \in Nat /\ ~(Min(older) <= place)
        BY <1>1, <3>2
      <4>2. place \notin older
        BY <3>1, <4>1
      <4>3. QED
        BY <4>1, <4>2
    <3>4. ASSUME NEW i \in DOMAIN scans, ~Old(i) PROVE i <= place
      <4>1. ~(Min(older) < i)
        BY <1>1, <1>2, <3>1, <3>4 DEF Old
      <4>2. Min(older) # i
        BY <3>1, <3>4
      <4>3. QED
        BY <1>1, <3>2, <4>1, <4>2
    <3>5. QED
      BY <3>3, <3>4
  <2>3. QED
    BY <2>1, <2>2
<1> HIDE DEF Old, older, place
<1>7. \A i \in DOMAIN scans : scans[i].id = scans[place].id => i = place
  BY <1>1, <1>2, <1>6
<1>8. (CHOOSE i \in DOMAIN scans : scans[i].id = scans[place].id) = place
  BY <1>6, <1>7
<1>9. /\ scans[place].day >= scans[1].day - days
      /\ \A i \in DOMAIN scans : scans[i].day >= scans[1].day - days => i <= place
  BY <1>1, <1>5, <1>6 DEF Old
<1>10. QED
  BY <1>3, <1>4, <1>8, <1>9

\* Whatever period is served, its baseline opens it: of the periods only the strategy matters.
LEMMA BaselinesHold == BaselineOpensPeriod
BY BaselineHolds DEF BaselineOpensPeriod

\* However conditions are administered and scans judged meanwhile, a refusal names conditions
\* that are violated, those on new code with the measures of the verdict's own period, and
\* the baseline served for a number of days is the oldest scan within them.
THEOREM VerdictsAreGrounded == GateSpec => [](GateTypeOK /\ VerdictIsGrounded)
<1>1. GateInv => GateTypeOK /\ VerdictIsGrounded
  BY RefusalsHaveReasons, BaselinesHold DEF GateInv, VerdictIsGrounded
<1>2. QED
  BY <1>1, GatesAtFirst, GatesStep, PTL DEF GateSpec

-----------------------------------------------------------------------------
(* All of it side by side                                                  *)

\* The four parts share no table: each behaves as its own specification says.
LEMMA PartsAreOnTheirOwn == GovernanceSpec => TagSpec /\ RuleSpec /\ ProfileSpec /\ GateSpec
<1>1. GovernanceInit => TagInit /\ RuleInit /\ ProfileInit /\ GateInit
  BY DEF GovernanceInit
<1>2. [GovernanceNext]_<<area, tagVars, ruleVars, profileVars, gateVars>> =>
        /\ [TagNext]_tagVars /\ [RuleNext]_ruleVars /\ [ProfileNext]_profileVars /\ [GateNext]_gateVars
  BY Zenon DEF GovernanceNext
<1>3. QED
  BY <1>1, <1>2, PTL DEF GovernanceSpec, TagSpec, RuleSpec, ProfileSpec, GateSpec

\* Everything that stewards administer stays well typed and keeps its promises: tags, custom
\* rules, quality profiles and quality gates, whatever requests interleave and fail.
THEOREM GovernanceHolds ==
  GovernanceSpec =>
    /\ [](GovernanceTypesOK /\ PublishableHoldsExamples /\ PolicyIsNearest /\ VerdictIsGrounded)
    /\ TagsFollowRequests /\ CopyIsWhole
<1>1. TagTypeOK /\ RuleTypeOK /\ ProfileTypeOK /\ GateTypeOK => GovernanceTypesOK
  BY DEF GovernanceTypesOK
<1>2. QED
  BY <1>1, PartsAreOnTheirOwn, TagsAreAsRequested, VocabularyIsClosed, PublishedRulesHold, RulesStayInOrder,
     ProfilesStayInOrder, PoliciesFollowChain, CopiesAreWhole, VerdictsAreGrounded, PTL
================================================================================
