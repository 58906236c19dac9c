--------------------------- MODULE TagGovernance ---------------------------
(***************************************************************************)
(* The tag vocabulary: a catalog of tags with aliases, the tags that       *)
(* issues, projects and rules carry, and saved filters that name tags.  A  *)
(* request reads what it needs in statements of its own and writes in one  *)
(* transaction, so another request may commit in between.                  *)
(*                                                                         *)
(* Source: application/tagging, ollantastore/postgres/tags.go and the      *)
(* handlers of ollantaweb/api/tags_handler.go.  Free text of a tag and the *)
(* audit log are left out; a key is in its normalised form.                *)
(***************************************************************************)
EXTENDS Integers, FiniteSets

CONSTANTS
    Keys,      \* tag keys that pass ValidateTagKey
    Issues,    \* targets whose tags are an array of a row
    Rules,     \* targets known only by their assignments
    Users,     \* signed-in users
    Admins,    \* those with the global permission "admin"
    Filters,   \* ids of saved filters
    MaxTagOps  \* bound: requests begun

NoTag == [status |-> "none"]
None == "none"

\* A target is of one kind, and no key is empty.
ASSUME TagAssumption == Issues \cap Rules = {} /\ None \notin Keys

Kept == {None} \* a request that leaves the aliases as they are

VARIABLES
    catalog,   \* tag_catalog: the row of a key, or NoTag
    aliases,   \* tag_aliases: the key an alias stands for, or None
    assigned,  \* tag_assignments: <<target, key>>
    carried,   \* the tags array of each target that has one
    filters,   \* saved_filters: the row of an id, or NoTag
    asked,     \* the request of each user between its reads and its transaction
    tagOps     \* requests begun so far

tagVars == <<catalog, aliases, assigned, carried, filters, asked, tagOps>>

Targets == Issues \cup Rules
Idle == [op |-> "idle"]

-----------------------------------------------------------------------------
(* Reading the vocabulary                                                  *)

Exists(k) == catalog[k] # NoTag

\* ResolveTagKey: the catalog's own key first, an alias after it, else not found.
ResolveTagKey(k) ==
    IF k # None /\ Exists(k) THEN k ELSE IF k # None THEN aliases[k] ELSE None

\* CanApplyTag: a deprecated tag cannot be added to a target.
CanApplyTag(status) == status # "deprecated"

\* TagUsage: targets that carry the tag or are assigned it, and filters that name it.
TagUsage(k) ==
    [targets |-> {t \in Issues : k \in carried[t]} \cup {t \in Targets : <<t, k>> \in assigned},
     filters |-> {f \in Filters : filters[f] # NoTag /\ k \in filters[f].tags}]

\* hasAdmin: the permission is read for a signed-in user.
HasAdmin(u) == u \in Admins

\* canGovernTag: an admin, or the user who owns the tag the key resolves to.
CanGovernTag(u, k) ==
    \/ HasAdmin(u)
    \/ ResolveTagKey(k) # None /\ catalog[ResolveTagKey(k)].owner = u

-----------------------------------------------------------------------------
(* The catalog                                                             *)

Begin(u, request) ==
    /\ asked[u] = Idle /\ tagOps < MaxTagOps
    /\ asked' = [asked EXCEPT ![u] = request] /\ tagOps' = tagOps + 1

Done(u) == asked' = [asked EXCEPT ![u] = Idle] /\ UNCHANGED tagOps

\* The row CreateTag inserts.
NewTag(status, owner) == [status |-> status, owner |-> owner, replacement |-> None]

\* CreateTag (handler, service and repository): an insert; the key may be an alias.
CreateTag(u, k, owner) ==
    /\ HasAdmin(u) /\ asked[u] = Idle /\ tagOps < MaxTagOps /\ tagOps' = tagOps + 1
    /\ ~Exists(k)
    /\ catalog' = [catalog EXCEPT ![k] = NewTag("active", owner)]
    /\ UNCHANGED <<aliases, assigned, carried, filters, asked>>

\* DiscoverTags: the tags of a scan's issues that the catalog does not have.
DiscoverTags(keys) ==
    /\ keys # {} /\ \E k \in keys : ~Exists(k)
    /\ catalog' = [k \in Keys |-> IF k \in keys /\ ~Exists(k) THEN NewTag("discovered", None) ELSE catalog[k]]
    /\ UNCHANGED <<aliases, assigned, carried, filters, asked, tagOps>>

\* applyTagUpdate: the fields that were sent over the row as it was read.
ApplyTagUpdate(existing, update) ==
    [f \in DOMAIN existing |-> IF f \in DOMAIN update THEN update[f] ELSE existing[f]]

\* Service.UpdateTag and the reads of TagRepository.UpdateTag: the replacement
\* and the key are resolved, and the whole next row is computed.
UpdateTag(u, k, update, newAliases) ==
    /\ CanGovernTag(u, k)
    /\ "replacement" \in DOMAIN update =>
         update.replacement = None \/ ResolveTagKey(update.replacement) # None
    /\ ResolveTagKey(k) # None
    /\ LET resolved == IF "replacement" \in DOMAIN update
                       THEN [update EXCEPT !.replacement = ResolveTagKey(@)] ELSE update
           key == ResolveTagKey(k)
       IN  Begin(u, [op |-> "update", key |-> key, aliases |-> newAliases,
                     next |-> ApplyTagUpdate(catalog[key], resolved)])
    /\ UNCHANGED <<catalog, aliases, assigned, carried, filters>>

\* DeprecateTag: an update of the status and the replacement.
DeprecateTag(u, k, replacement) ==
    UpdateTag(u, k, [status |-> "deprecated", replacement |-> replacement], Kept)

\* replaceTagAliases: the tag's aliases are deleted and the new ones upserted,
\* which takes an alias away from another tag.
ReplaceTagAliases(key, newAliases) ==
    IF newAliases = Kept THEN aliases
    ELSE [a \in Keys |-> IF a \in newAliases \ {key} THEN key
                         ELSE IF aliases[a] = key THEN None ELSE aliases[a]]

\* The transaction of UpdateTag.
UpdateTagCommit(u) ==
    /\ asked[u].op = "update"
    /\ catalog' = [catalog EXCEPT ![asked[u].key] = asked[u].next]
    /\ aliases' = ReplaceTagAliases(asked[u].key, asked[u].aliases)
    /\ Done(u)
    /\ UNCHANGED <<assigned, carried, filters>>

\* Service.MergeTag and the reads of TagRepository.MergeTag: only the target is
\* resolved, and the source need only exist under some name.
MergeTag(u, source, target) ==
    /\ CanGovernTag(u, source)
    /\ ResolveTagKey(target) \notin {None, source}
    /\ ResolveTagKey(source) # None
    /\ Begin(u, [op |-> "merge", source |-> source, target |-> ResolveTagKey(target)])
    /\ UNCHANGED <<catalog, aliases, assigned, carried, filters>>

\* The tags array with one key in place of another.
Rename(tags, source, target) == IF source \in tags THEN (tags \ {source}) \cup {target} ELSE tags

\* The transaction of MergeTag: the source becomes an alias, its assignments
\* and array entries become the target's, its row (if it is a row) deprecated.
MergeTagCommit(u) ==
    LET s == asked[u].source t == asked[u].target
    IN  /\ asked[u].op = "merge"
        /\ aliases' = [aliases EXCEPT ![s] = t]
        /\ assigned' = {<<p[1], IF p[2] = s THEN t ELSE p[2]>> : p \in assigned}
        /\ carried' = [x \in Issues |-> Rename(carried[x], s, t)]
        /\ catalog' = [catalog EXCEPT ![s] = IF @ = NoTag THEN @
                                            ELSE [@ EXCEPT !.status = "deprecated", !.replacement = t]]
        /\ Done(u)
        /\ UNCHANGED filters

-----------------------------------------------------------------------------
(* Bulk edits                                                              *)

\* normalizeBulkEditRequest: tags to add must resolve to tags that may be
\* applied; a tag to remove that is unknown is kept as it was written.
Normalized(add, remove) ==
    [add |-> {ResolveTagKey(k) : k \in add},
     remove |-> {IF ResolveTagKey(k) = None THEN k ELSE ResolveTagKey(k) : k \in remove}]

\* loadTargets: a rule's tags are its assignments.
TagsOf(x) == IF x \in Issues THEN carried[x] ELSE {k \in Keys : <<x, k>> \in assigned}

\* buildTagChange: what the edit makes of one target.
BuildTagChange(before, edit) == [before |-> before, after |-> (before \cup edit.add) \ edit.remove]

\* BulkApply: the request is normalised, and the change of the target computed,
\* before the transaction.
ApplyBulkEdit(u, x, add, remove) ==
    /\ add \cup remove # {}
    /\ \A k \in add : ResolveTagKey(k) # None /\ CanApplyTag(catalog[ResolveTagKey(k)].status)
    /\ LET edit == Normalized(add, remove) change == BuildTagChange(TagsOf(x), edit)
       IN  /\ change.before # change.after
           /\ Begin(u, [op |-> "bulk", target |-> x, edit |-> edit, change |-> change])
    /\ UNCHANGED <<catalog, aliases, assigned, carried, filters>>

\* Mutant of ApplyTagChange: the assignments are overwritten as the array is.
ApplyTagChangeWhole(x, edit, change) ==
    /\ carried' = IF x \in Issues THEN [carried EXCEPT ![x] = change.after] ELSE carried
    /\ assigned' = {p \in assigned : p[1] # x} \cup {<<x, k>> : k \in change.after}

\* applyTagChange: the array is overwritten; assignments are added and deleted.
ApplyTagChange(x, edit, change) ==
    /\ carried' = IF x \in Issues THEN [carried EXCEPT ![x] = change.after] ELSE carried
    /\ assigned' = (assigned \cup {<<x, k>> : k \in edit.add}) \ {<<x, k>> : k \in edit.remove}

\* The transaction of ApplyTagBulkEdit.
ApplyBulkEditCommit(u) ==
    /\ asked[u].op = "bulk"
    /\ ApplyTagChange(asked[u].target, asked[u].edit, asked[u].change)
    /\ Done(u)
    /\ UNCHANGED <<catalog, aliases, filters>>

-----------------------------------------------------------------------------
(* Saved filters                                                           *)

\* normalizeCriteriaTags: every tag of the criteria must resolve.
Resolvable(tags) == \A k \in tags : ResolveTagKey(k) # None
CriteriaTags(tags) == {ResolveTagKey(k) : k \in tags}

\* savedFilterFromRequest: private unless the request says otherwise.
SavedFilterFromRequest(u, visibility, tags) ==
    [status |-> "saved", owner |-> u, visibility |-> IF visibility = "" THEN "private" ELSE visibility,
     tags |-> CriteriaTags(tags)]

WriteFilter(f, row) ==
    /\ tagOps < MaxTagOps /\ tagOps' = tagOps + 1
    /\ filters' = [filters EXCEPT ![f] = row]
    /\ UNCHANGED <<catalog, aliases, assigned, carried, asked>>

CreateSavedFilter(u, f, visibility, tags) ==
    /\ filters[f] = NoTag /\ Resolvable(tags)
    /\ WriteFilter(f, SavedFilterFromRequest(u, visibility, tags))

\* The owner stays the owner: the row is matched by it.
UpdateSavedFilter(u, f, visibility, tags) ==
    /\ filters[f] # NoTag /\ filters[f].owner = u /\ Resolvable(tags)
    /\ WriteFilter(f, SavedFilterFromRequest(u, visibility, tags))

DeleteSavedFilter(u, f) ==
    filters[f] # NoTag /\ filters[f].owner = u /\ WriteFilter(f, NoTag)

-----------------------------------------------------------------------------
\* A transaction that fails is rolled back and the request answered with the error.
Abort(u) ==
    /\ asked[u] # Idle /\ Done(u)
    /\ UNCHANGED <<catalog, aliases, assigned, carried, filters>>

TagInit ==
    /\ catalog = [k \in Keys |-> NoTag] /\ aliases = [k \in Keys |-> None]
    /\ assigned = {} /\ carried = [x \in Issues |-> {}]
    /\ filters = [f \in Filters |-> NoTag]
    /\ asked = [u \in Users |-> Idle] /\ tagOps = 0

TagNext ==
    \/ \E keys \in SUBSET Keys : DiscoverTags(keys)
    \/ \E u \in Users :
        \/ \E k \in Keys, owner \in Users \cup {None} : CreateTag(u, k, owner)
        \/ \E k \in Keys, names \in SUBSET Keys : UpdateTag(u, k, [status |-> "active"], names)
        \/ \E k \in Keys, r \in Keys \cup {None} : DeprecateTag(u, k, r)
        \/ \E s, t \in Keys : MergeTag(u, s, t)
        \/ \E x \in Targets, add, remove \in SUBSET Keys : ApplyBulkEdit(u, x, add, remove)
        \/ UpdateTagCommit(u) \/ MergeTagCommit(u) \/ ApplyBulkEditCommit(u) \/ Abort(u)
        \/ \E f \in Filters, v \in {"", "shared"}, tags \in SUBSET Keys :
                CreateSavedFilter(u, f, v, tags) \/ UpdateSavedFilter(u, f, v, tags)
        \/ \E f \in Filters : DeleteSavedFilter(u, f)

TagSpec == TagInit /\ [][TagNext]_tagVars

-----------------------------------------------------------------------------
(* Properties                                                              *)

\* The tables hold what their columns may hold, and nothing refers to a tag
\* that is not in the catalog.
TagTypeOK ==
    /\ \A k \in Keys : catalog[k] = NoTag \/
         /\ catalog[k].status \in {"active", "discovered", "deprecated"}
         /\ catalog[k].owner \in Users \cup {None}
         /\ catalog[k].replacement \in Keys \cup {None}
         /\ catalog[k].replacement # None => Exists(catalog[k].replacement)
    /\ \A k \in Keys : aliases[k] # None => Exists(aliases[k]) /\ aliases[k] # k
    /\ \A p \in assigned : p[1] \in Targets /\ Exists(p[2])
    /\ \A x \in Issues : \A k \in carried[x] : Exists(k)
    /\ \A f \in Filters : filters[f] # NoTag => \A k \in filters[f].tags : Exists(k)

\* A merge leaves no use of the source on any target, whatever other requests
\* did since it read the tags, and every use becomes one of the target.
MergeLeavesNoTrace ==
    [][\A s, t \in Keys :
        (\E u \in Users : MergeTagCommit(u) /\ asked[u].source = s /\ asked[u].target = t) =>
            /\ (TagUsage(s).targets)' = {}
            /\ (TagUsage(t).targets)' = TagUsage(t).targets \cup TagUsage(s).targets]_tagVars

\* Bulk edits compose: one adds and removes its own tags and keeps those that
\* other edits have put there.  On a rule that holds always, its edit being made
\* of inserts and deletes; on a target with an array, when nothing committed
\* since the edit was computed.
EditsCompose ==
    [][\A u \in Users, x \in Targets :
        (ApplyBulkEditCommit(u) /\ asked[u].target = x
            /\ (x \in Rules \/ carried[x] = asked[u].change.before)) =>
                TagsOf(x)' = (TagsOf(x) \cup asked[u].edit.add) \ asked[u].edit.remove]_tagVars

\* What is in the tables afterwards is what was asked for: merges carry every use along, bulk edits
\* keep the tags of others.
TagsFollowRequests == MergeLeavesNoTrace /\ EditsCompose
=============================================================================
