------------------------------- MODULE Authz --------------------------------
(***************************************************************************)
(* internal/authz: the one evaluator that every read surface asks.         *)
(* Decide is a pure function of who asks, on which surface and for what;   *)
(* the state machine around it is a stream of requests to the evaluator of *)
(* one site, whose privacy mode is fixed when it is built.  The Reason     *)
(* that comes with a decision is only logged and is left out.              *)
(***************************************************************************)
EXTENDS Naturals

CONSTANTS
    Users,      \* user ids
    Owners,     \* owner ids of resources
    NoUser      \* the empty id: an anonymous viewer, an unowned resource

ASSUME NoUserAssumption == NoUser \notin Users \union Owners

-----------------------------------------------------------------------------
Roles == {"anonymous", "guest", "member", "manager", "admin", "owner"}
roleRank == [anonymous |-> 0, guest |-> 1, member |-> 2, manager |-> 3, admin |-> 4, owner |-> 5]
AtLeast(role, other) == roleRank[role] >= roleRank[other]

\* "unset" stands for the empty string and for every unrecognised value.
Visibilities == {"public", "unlisted", "private", "unset"}
AlbumPrivacies == {"public", "private", "link", "password", "unset"}
DownloadSettings == {"", "all", "members", "nobody", "unrecognised"}

\* The surfaces of kindOf, by the kind that governs them.
Direct == {"item_page", "derivative_url", "notifications"}
Download == {"original_download", "bulk_download"}
Listing == {"profile_grid", "explore", "tag_category_listing", "feeds", "sitemap",
            "federation_outbound", "shared_cache"}
ListingIPFS == {"ipfs_publication"}
Actions == Direct \union Download \union Listing \union ListingIPFS
             \union {"embed", "favorite_rating", "search", "owner_library", "admin_console",
                     "export", "album_page", "count_contribution"}

\* Subjects as callers build them: no identity means no role and no audited
\* context, and the download capability comes with a grant.
Subjects ==
    {s \in [ user : Users \union {NoUser}, role : Roles, staff : BOOLEAN,
             hasGrant : BOOLEAN, grantAllowsDownload : BOOLEAN ] :
        /\ s.user = NoUser <=> s.role = "anonymous"
        /\ s.user = NoUser => ~s.staff
        /\ s.grantAllowsDownload => s.hasGrant}

Resources ==
    [ owner : Owners \union {NoUser}, visibility : Visibilities,
      albumPrivacy : AlbumPrivacies, download : DownloadSettings,
      ownLibrary : BOOLEAN, ownerAllowsIPFS : BOOLEAN ]

-----------------------------------------------------------------------------
Anonymous(s) == s.user = NoUser
Owner(s, r) == r.owner # NoUser /\ s.user = r.owner

\* Variant: only the role that is named is staff.
StaffExactly(s) == s.staff /\ s.role = "manager"
Staff(s) == s.staff /\ AtLeast(s.role, "manager")

OwnerOrStaff(s, r) == Owner(s, r) \/ Staff(s)
Reachable(r) == r.visibility \in {"public", "unlisted"}

\* downloadSettingPermits: the owner and audited staff are never narrowed.
DownloadSettingPermits(s, r) ==
    \/ OwnerOrStaff(s, r)
    \/ r.download \in {"", "all"}
    \/ r.download = "members" /\ ~Anonymous(s)

\* Variant: a private item's page is for its owner and for grants.
DirectAllowsNoStaff(s, r) == Reachable(r) \/ Owner(s, r) \/ s.hasGrant
\* Rows 1, 3 and 12.
DirectAllows(s, r) == Reachable(r) \/ OwnerOrStaff(s, r) \/ s.hasGrant

\* Rows 2 and 16.
DownloadAllows(s, r) ==
    /\ DownloadSettingPermits(s, r)
    /\ Reachable(r) \/ OwnerOrStaff(s, r) \/ (s.hasGrant /\ s.grantAllowsDownload)

\* Rows 7, 8, 10, 11, 15, 17 and 21; and 18.
ListingAllows(s, r) == r.visibility = "public"
IPFSAllows(s, r) == ListingAllows(s, r) /\ r.ownerAllowsIPFS

\* Row 9: grants do not extend to search.
SearchAllows(s, r) == r.visibility = "public" \/ (Owner(s, r) /\ r.ownLibrary)

\* Row 5.
CountAllows(s, r) == r.visibility = "public" \/ OwnerOrStaff(s, r) \/ s.hasGrant

\* Row 4: album privacy governs, not item visibility.
AlbumAllows(s, r) ==
    /\ r.albumPrivacy # "unset"
    /\ OwnerOrStaff(s, r) \/ r.albumPrivacy = "public" \/ s.hasGrant

\* Variant: the aggregates of a private item are as public as any other.
AggregateAllowsAll(s, r) == TRUE
\* Row 13.
AggregateAllows(s, r) == Reachable(r) \/ OwnerOrStaff(s, r)

\* Row 19: site export is by owner role, audited.
ExportAllows(s, r) == Owner(s, r) \/ (s.staff /\ s.role = "owner")

\* Decide, as the set of conditions under which it says Allow: the site's
\* privacy mode, the surface, the visibility, and then the surface's own rule.
Decide(private, s, action, r) ==
    /\ ~(private /\ Anonymous(s))
    /\ r.visibility # "unset"
    /\ \/ action \in Direct /\ DirectAllows(s, r)
       \/ action \in Download /\ DownloadAllows(s, r)
       \/ action \in Listing /\ ListingAllows(s, r)
       \/ action \in ListingIPFS /\ IPFSAllows(s, r)
       \/ action = "embed" /\ Reachable(r)
       \/ action = "favorite_rating" /\ AggregateAllows(s, r)
       \/ action = "search" /\ SearchAllows(s, r)
       \/ action = "owner_library" /\ OwnerOrStaff(s, r)
       \/ action = "admin_console" /\ Staff(s)
       \/ action = "export" /\ ExportAllows(s, r)
       \/ action = "album_page" /\ AlbumAllows(s, r)
       \/ action = "count_contribution" /\ CountAllows(s, r)

\* Whether a denial is a 404 and not a 403.
HideExistence(r) == ~Reachable(r)

-----------------------------------------------------------------------------
VARIABLES
    private,    \* Options.SitePrivate
    subject,    \* who asks
    action      \* on which surface

authzVars == <<private, subject, action>>

\* NewEvaluator, before the first request.
Init ==
    /\ private \in BOOLEAN
    /\ subject = [ user |-> NoUser, role |-> "anonymous", staff |-> FALSE,
                   hasGrant |-> FALSE, grantAllowsDownload |-> FALSE ]
    /\ action = "none"

\* The next request; the evaluator remembers nothing.
Ask ==
    /\ subject' \in Subjects
    /\ action' \in Actions \union {"surface_not_in_matrix"}
    /\ UNCHANGED private

Next == Ask

Spec == Init /\ [][Next]_authzVars

-----------------------------------------------------------------------------
\* Properties.  `action` is the surface in question, if any; album pages are governed
\* by the album and filtered item by item by the caller.
ItemSurface == action \notin {"album_page", "none"}

\* A viewer who comes across an item on any surface - a listing, a search, a
\* count, a download, a feed, an export - may also open its page: no surface
\* shows what the item page would hide.
ShownIsReachable ==
    ItemSurface => \A r \in Resources :
        Decide(private, subject, action, r) => Decide(private, subject, "item_page", r)

\* A denial that hides the existence of an item is not betrayed elsewhere: on
\* no surface is such an item shown to anyone but its owner, staff in an
\* audited context and holders of a grant.
HiddenFromStrangers ==
    ItemSurface => \A r \in Resources :
        (HideExistence(r) /\ Decide(private, subject, action, r))
            => Owner(subject, r) \/ Staff(subject) \/ subject.hasGrant

\* t is s with more: an identity, a higher role, the audited context, a grant.
Above(t, s) ==
    /\ s.user \in {t.user, NoUser}
    /\ AtLeast(t.role, s.role)
    /\ s.staff => t.staff
    /\ s.hasGrant => t.hasGrant
    /\ s.grantAllowsDownload => t.grantAllowsDownload

\* Signing in, being promoted, entering the audited context or being given a
\* grant never takes an item away.
PrivilegeOnlyAdds ==
    action # "none" => \A t \in Subjects : Above(t, subject) =>
        \A r \in Resources :
            Decide(private, subject, action, r) => Decide(private, t, action, r)

\* The values of a setting that are narrower than v, as in the documentation of
\* Resource: visibility and album privacy deny when unset, the download setting
\* "only ever NARROWS".
NarrowerVisibility(v) ==
    CASE v = "public"   -> {"unlisted", "private", "unset"}
      [] v = "unlisted" -> {"private", "unset"}
      [] v = "private"  -> {"unset"}
      [] OTHER          -> {}
NarrowerAlbum(p) ==
    CASE p = "public" -> {"private", "link", "password", "unset"}
      [] p = "unset"  -> {}
      [] OTHER        -> {"unset"}
NarrowerDownload(d) ==
    CASE d \in {"", "all"} -> {"members", "nobody", "unrecognised"}
      [] d = "members"     -> {"nobody", "unrecognised"}
      [] OTHER             -> {"unrecognised"}

\* r with one of its settings narrowed.
Narrowings(r) ==
    {[r EXCEPT !.visibility = v] : v \in NarrowerVisibility(r.visibility)}
      \union {[r EXCEPT !.albumPrivacy = p] : p \in NarrowerAlbum(r.albumPrivacy)}
      \union {[r EXCEPT !.download = d] : d \in NarrowerDownload(r.download)}
      \union {[r EXCEPT !.ownerAllowsIPFS = FALSE]}

\* An owner who narrows a setting never opens the item to anyone anywhere.
NarrowingOnlyRemoves ==
    \A r \in Resources : ~Decide(private, subject, action, r) =>
        \A q \in Narrowings(r) : ~Decide(private, subject, action, q)

\* What is published to the world at large - listings, feeds, the sitemap,
\* federation, IPFS, shared caches - anybody may open, whoever it was that the
\* evaluator was asked for.  (On a private site everybody is signed in.)
PublishedIsForEveryone ==
    \A r \in Resources, t \in Subjects :
        (/\ action \in Listing \union ListingIPFS
         /\ Decide(private, subject, action, r)
         /\ private => ~Anonymous(t)) => Decide(private, t, "item_page", r)
=============================================================================
