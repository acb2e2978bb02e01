------------------------------ MODULE MCLinks ------------------------------
(* Instances of Links for TLC. *)
EXTENDS Links

Plain(host, path) ==
    [scheme |-> "https", host |-> host, dress |-> "plain", path |-> path]

OtherSite == <<"example", "org">>

\* The two full links, a short link again, and a page that is no transfer.
LandingPages ==
    {Plain(WeTransfer, "/downloads/ID/HASH"),
     Plain(WeTransfer, "/downloads/ID/RECIPIENT/HASH"),
     Plain(WeTL, "/t-CODE"), Plain(WeTransfer, "/other")}
=============================================================================
