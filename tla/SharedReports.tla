----------------------------- MODULE SharedReports -----------------------------
(***************************************************************************)
(* Report sharing: links to a report that outsiders open with a token.     *)
(* Every change and every view takes two commits, one of this component    *)
(* and one of the audit trail; a rotation revokes the old link before it   *)
(* creates the next one, which may fail.  A password and an expiry date    *)
(* only ever refuse a reader, which any opening here may do as well.       *)
(***************************************************************************)
EXTENDS Naturals, Sequences, FiniteSets

CONSTANTS ShareRequests,    \* requests in progress at once
          MaxLinks,         \* bound on links
          MaxViews          \* bound on the views of a link

ASSUME SharedReportsAssumption ==
    MaxLinks \in Nat /\ MaxViews \in Nat /\ IsFiniteSet(ShareRequests)

VARIABLES link,             \* table report_share_links, by the order of their creation
          shareReq,         \* requests to this component
          shown             \* of each link: whether its token is out, answers it gave

sharedVars == <<link, shareReq, shown>>

\* views counts its report_share_views; created and viewed are what audit_events
\* says of it.
ShareLink == [active : BOOLEAN, views : 0..MaxViews,
              created : BOOLEAN, viewed : 0..MaxViews]
\* closed: a revocation or rotation has been answered.
Shown == [token : BOOLEAN, closed : BOOLEAN, reports : 0..MaxViews]
NoShareRequest == [pc |-> "idle"]
\* late: the link had been closed when the request came in.
ShareRequest == [pc : {"arrived", "changed", "revoked", "tested", "viewed", "audited"},
                 kind : {"create", "revoke", "rotate", "open"}, id : 0..MaxLinks,
                 late : BOOLEAN]

SharedTypeOK ==
    /\ link \in Seq(ShareLink) /\ Len(link) <= MaxLinks
    /\ shareReq \in [ShareRequests -> {NoShareRequest} \cup ShareRequest]
    /\ shown \in Seq(Shown) /\ Len(shown) = Len(link)
    /\ \A q \in ShareRequests : shareReq[q] # NoShareRequest /\ shareReq[q].id = 0 =>
                                    shareReq[q].kind = "create" /\ shareReq[q].pc = "arrived"

SharedInit ==
    /\ link = <<>> /\ shown = <<>>
    /\ shareReq = [q \in ShareRequests |-> NoShareRequest]

ShareAt(q, kinds, pc) == shareReq[q].pc = pc /\ shareReq[q].kind \in kinds
ShareTo(q, pc) == shareReq' = [shareReq EXCEPT ![q].pc = pc]
ShareLeave(q) == shareReq' = [shareReq EXCEPT ![q] = NoShareRequest]

ShareArrive(q, kind, i) ==
    /\ shareReq[q] = NoShareRequest
    /\ kind = "open" => shown[i].token
    /\ shareReq' = [shareReq EXCEPT ![q] =
                      [pc |-> "arrived", kind |-> kind, id |-> i,
                       late |-> i # 0 /\ shown[i].closed]]
    /\ UNCHANGED <<link, shown>>

-----------------------------------------------------------------------------
(***************************************************************************)
(* revoke, and rotate up to _create                                        *)
(***************************************************************************)
Deactivated(q) == [link EXCEPT ![shareReq[q].id].active = FALSE]

RevokeLink(q) ==
    /\ ShareAt(q, {"revoke", "rotate"}, "arrived")
    /\ link' = Deactivated(q)
    /\ ShareTo(q, "revoked")
    /\ UNCHANGED shown

\* The audit of the revocation answers revoke; rotate goes on.
AuditRevoke(q) ==
    /\ ShareAt(q, {"revoke"}, "revoked")
    /\ shown' = [shown EXCEPT ![shareReq[q].id].closed = TRUE]
    /\ ShareLeave(q)
    /\ UNCHANGED link

\* _create: export_payload, the test of the expiry and the commit of the link; the
\* report may be gone, and the date a rotation copies may have passed.
SaveLink(q) ==
    /\ ShareAt(q, {"create"}, "arrived") \/ ShareAt(q, {"rotate"}, "revoked")
    /\ Len(link) < MaxLinks
    /\ link' = Append(link, [active |-> TRUE, views |-> 0, created |-> FALSE, viewed |-> 0])
    /\ shown' = Append(IF shareReq[q].kind = "rotate"
                       THEN [shown EXCEPT ![shareReq[q].id].closed = TRUE] ELSE shown,
                       [token |-> FALSE, closed |-> FALSE, reports |-> 0])
    /\ shareReq' = [shareReq EXCEPT ![q].pc = "changed", ![q].id = Len(link) + 1]

\* The token is handed out once the creation is audited.
TokenAfter(q) == shareReq[q].pc = "changed" /\ link[shareReq[q].id].created

AuditCreate(q) ==
    /\ shareReq[q].pc = "changed" /\ ~link[shareReq[q].id].created
    /\ link' = [link EXCEPT ![shareReq[q].id].created = TRUE]
    /\ UNCHANGED <<shareReq, shown>>

AnswerToken(q) ==
    /\ TokenAfter(q)
    /\ shown' = [shown EXCEPT ![shareReq[q].id].token = TRUE]
    /\ ShareLeave(q)
    /\ UNCHANGED link

-----------------------------------------------------------------------------
(***************************************************************************)
(* open                                                                    *)
(***************************************************************************)
\* A link that is active may have expired, or want another password.
TestLink(q) ==
    /\ ShareAt(q, {"open"}, "arrived")
    /\ \/ link[shareReq[q].id].active /\ ShareTo(q, "tested")
       \/ ShareLeave(q)
    /\ UNCHANGED <<link, shown>>

AddView(q) ==
    /\ shareReq[q].pc = "tested"
    /\ link[shareReq[q].id].views < MaxViews
    /\ link' = [link EXCEPT ![shareReq[q].id].views = @ + 1]
    /\ ShareTo(q, "viewed")
    /\ UNCHANGED shown

AuditView(q) ==
    /\ shareReq[q].pc = "viewed"
    /\ link' = [link EXCEPT ![shareReq[q].id].viewed = @ + 1]
    /\ ShareTo(q, "audited")
    /\ UNCHANGED shown

ReportAfter_View == {"viewed", "audited"}
ReportAfter == {"audited"}

AnswerReport(q) ==
    /\ shareReq[q].pc \in ReportAfter
    /\ shown' = [shown EXCEPT ![shareReq[q].id].reports = @ + 1]
    /\ ShareLeave(q)
    /\ UNCHANGED link

\* The report is gone, an audit entry cannot be written, or the process dies.
ShareFails(q) ==
    /\ shareReq[q] # NoShareRequest
    /\ ShareLeave(q)
    /\ UNCHANGED <<link, shown>>

SharedNext ==
    \E q \in ShareRequests :
        \/ ShareArrive(q, "create", 0)
        \/ \E i \in DOMAIN link, kind \in {"revoke", "rotate", "open"} : ShareArrive(q, kind, i)
        \/ RevokeLink(q)
        \/ AuditRevoke(q)
        \/ SaveLink(q)
        \/ AuditCreate(q)
        \/ AnswerToken(q)
        \/ TestLink(q)
        \/ AddView(q)
        \/ AuditView(q)
        \/ AnswerReport(q)
        \/ ShareFails(q)

-----------------------------------------------------------------------------
(***************************************************************************)
(* Properties                                                              *)
(***************************************************************************)
\* open: a report is shown to nobody whose view is not stored and audited, whatever
\* failed in between, and through no link whose creation is not audited: a link
\* whose _create stopped half way is live but its token was given to nobody.
ViewsAudited ==
    \A i \in DOMAIN link :
        /\ shown[i].reports <= link[i].viewed /\ link[i].viewed <= link[i].views
        /\ link[i].views > 0 => link[i].created

\* revoke and rotate: once one of them has been answered, or has gone on to the
\* next link, requests that come in later do not get past the tests of the old one.
ClosedLinkRefused ==
    \A q \in ShareRequests :
        shareReq[q] # NoShareRequest /\ shareReq[q].kind = "open" /\ shareReq[q].late =>
            shareReq[q].pc = "arrived"

\* ViewsAudited and ClosedLinkRefused together: a shared report is seen on the record and
\* through links in force only (report_sharing/service.py).
LinksKept == ViewsAudited /\ ClosedLinkRefused

================================================================================
