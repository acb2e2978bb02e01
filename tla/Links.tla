-------------------------------- MODULE Links --------------------------------
(***************************************************************************)
(* From a pasted link to the file behind it: the registry (registry.go),   *)
(* the five services' Resolve (wetransfer.go, sendgb.go, sendspace.go,     *)
(* transfernow.go, wesendit.go), and what ServeHTTP and InfoHandler answer *)
(* when that fails (download.go).  One request, for any link; what happens *)
(* before and after is in Downloads.                                       *)
(*                                                                         *)
(* A link is kept as far as the code tells links apart: its scheme, its    *)
(* host as a sequence of labels, how the host or the end is dressed up,    *)
(* and the form of its path.  The services answer as they please.          *)
(***************************************************************************)
EXTENDS Naturals, Sequences, SequencesExt

CONSTANTS
    OtherHost,     \* the host of some site that is no service
    Subdomain,     \* a label that no host is registered with
    Landings       \* where the redirects of a short link may end: links

Services == {"wetransfer", "sendgb", "sendspace", "transfernow", "wesendit"}

WeTransfer == <<"wetransfer", "com">>
WeTL       == <<"we", "tl">>
Apex == [p \in Services \ {"wetransfer"} |->
           CASE p = "sendgb"      -> <<"sendgb", "com">>
             [] p = "sendspace"   -> <<"sendspace", "com">>
             [] p = "transfernow" -> <<"transfernow", "net">>
             [] p = "wesendit"    -> <<"wesendit", "com">>]
Www(host) == <<"www">> \o host

Hosts(p) == IF p = "wetransfer" THEN {WeTransfer, WeTL} ELSE {Apex[p], Www(Apex[p])}

\* The paths a service's regular expressions know.
Forms(p) ==
    CASE p = "wetransfer"  -> {"/downloads/ID/HASH", "/downloads/ID/RECIPIENT/HASH"}
      [] p = "sendgb"      -> {"/CODE", "/en/download/CODE", "/file/CODE"}
      [] p = "sendspace"   -> {"/file/CODE"}
      [] p = "transfernow" -> {"/CODE", "/dl/CODE"}
      [] p = "wesendit"    -> {"/CODE", "/d/CODE"}
ShortForms == {"/CODE", "/t-CODE"}

Roots == (UNION {Hosts(p) : p \in Services}) \cup {OtherHost}
Link  ==
    [scheme : {"https", "http", "none"},
     host : Roots \cup {<<Subdomain>> \o h : h \in Roots},
     dress : {"plain", "upper", "dot", "port", "query"},
     path : (UNION {Forms(p) : p \in Services}) \cup ShortForms \cup {"/other"}]

ASSUME LinksAssumption ==
    /\ OtherHost \notin UNION {Hosts(p) : p \in Services}
    /\ Landings \subseteq Link

VARIABLES
    given,     \* the link in the request
    mode,      \* "info" or "download"
    gone,      \* the client has left
    pc,        \* where the request is
    service,   \* the provider it was given to
    link,      \* the link that provider is at
    call,      \* which of its calls it is at
    reply,     \* the status of the answer, 0 before
    why        \* history: what the answer is about

vars == <<given, mode, gone, pc, service, link, call, reply, why>>

Init ==
    /\ given \in Link /\ mode \in {"info", "download"} /\ gone = FALSE
    /\ pc = "arrived" /\ service = "none" /\ link = given /\ call = 1
    /\ reply = 0 /\ why = "none"

-----------------------------------------------------------------------------
(* The registry *)

\* Case, port and the dot at the end do not count.  Without a scheme the whole
\* link is a path.  The subdomains of every host are searched in the order of a
\* Go map: any.
Candidates(l) ==
    LET Serve(h) == {p \in Services : h \in Hosts(p)}
    IN IF l.scheme = "none" THEN {}
       ELSE IF Serve(l.host) # {} THEN Serve(l.host)
       ELSE UNION {Serve(h) : h \in {r \in Roots : IsStrictSuffix(r, l.host)}}

Answer(status, about) ==
    /\ pc' = "answered" /\ reply' = status /\ why' = about
    /\ UNCHANGED <<given, mode, gone, service, link, call>>

NoProvider == pc = "arrived" /\ Candidates(given) = {} /\ Answer(400, "link")

ResolveProvider ==
    /\ pc = "arrived"
    /\ \E p \in Candidates(given) : service' = p
    /\ pc' = "parsing"
    /\ UNCHANGED <<given, mode, gone, link, call, reply, why>>

-----------------------------------------------------------------------------
(* Failures *)

IsShortURL == /\ given.scheme = "https" /\ given.host = WeTL
              /\ given.dress \in {"plain", "query"}

NeedsPassword == IF mode = "download" THEN 401 ELSE 200

\* The words of the error are looked at first.
FailVariant(error, about) ==
    Answer(CASE error = "password" -> NeedsPassword
             [] error = "format"   -> 400
             [] OTHER              -> 502, about)

\* Resolve's error becomes a status.  A failed short link is always 502, and so
\* is whatever does not read like a fault of the link.
Fail(error, about) ==
    Answer(CASE error = "password"                  -> NeedsPassword
             [] error = "format" /\ ~IsShortURL     -> 400
             [] OTHER                               -> 502, about)

-----------------------------------------------------------------------------
(* Resolve *)

\* Only WeTransfer's full links are told by the path alone; the other regular
\* expressions want the whole link as it should be.  Wesendit's host check does
\* not let its registered www host through.
Accepted(l) ==
    /\ l.path \in Forms(service)
    /\ service # "wetransfer" =>
         /\ l.dress = "plain"
         /\ l.host \in IF service = "wesendit" THEN {Apex[service]} ELSE Hosts(service)

Short(l) == service = "wetransfer" /\ l.host = WeTL /\ l.dress = "plain"
              /\ l.path \in ShortForms

GoOn(where) == /\ pc' = where
               /\ UNCHANGED <<given, mode, gone, service, call, reply, why>>

ParseURL ==
    /\ pc = "parsing"
    /\ \/ Short(link) /\ GoOn("following") /\ UNCHANGED link
       \/ ~Short(link) /\ Accepted(link) /\ GoOn("asking") /\ UNCHANGED link
       \/ ~Short(link) /\ ~Accepted(link)
            /\ Fail("format", IF link = given THEN "link" ELSE "landing")

\* The redirects are followed even for a client that left.
FollowVariant ==
    /\ pc = "following"
    /\ \/ \E l \in Landings : link' = l /\ GoOn("parsing")
       \/ Fail("other", "service")

\* The redirects of a short link are followed to a page, which is parsed in its
\* turn, and may be a short link again, the same one too.  A call whose client
\* has left fails; any may.
Follow ==
    /\ pc = "following"
    /\ \/ ~gone /\ \E l \in Landings : link' = l /\ GoOn("parsing")
       \/ Fail("other", "service")

\* SendGB is asked for the transfer, for a session and for its segments.
Calls == IF service = "sendgb" THEN 3 ELSE 1

Ask ==
    /\ pc = "asking"
    /\ \/ /\ ~gone /\ call < Calls /\ call' = call + 1
          /\ UNCHANGED <<given, mode, gone, pc, service, link, reply, why>>
       \/ Fail("other", "service")

\* The first answer may ask for a password, or refuse in words that read like
\* a complaint about the link.
Refused ==
    /\ pc = "asking" /\ ~gone /\ call = 1
    /\ \E error \in {"password", "format"} : Fail(error, "service")

Resolved ==
    /\ pc = "asking" /\ ~gone /\ call = Calls
    /\ \E status \in {200} \cup (IF mode = "download" THEN {413} ELSE {}) :
         Answer(status, "file")

Leave ==
    /\ ~gone /\ pc # "answered" /\ gone' = TRUE
    /\ UNCHANGED <<given, mode, pc, service, link, call, reply, why>>

Handler == NoProvider \/ ResolveProvider \/ ParseURL \/ Follow \/ Ask \/ Refused
             \/ Resolved

Next == Handler \/ Leave

\* Calls end: each has the client's time-out (request_timeout).
Spec == Init /\ [][Next]_vars /\ WF_vars(Handler)
-----------------------------------------------------------------------------
(* Properties *)

\* What the README's table of services promises, as far as hosts and the forms
\* of the links go.
Listed(l) ==
    /\ l.scheme # "none" /\ l.dress = "plain"
    /\ \E p \in Services :
         /\ l.host \in Hosts(p)
         /\ l.path \in Forms(p) \cup (IF l.host = WeTL THEN ShortForms ELSE {})

\* 400 blames the link, and rightly: a link as the services hand them out gets
\* it only if the service itself complains, if it is a short link without TLS
\* that leads to something else, or if it is on www.wesendit.com
\* (download.go:74-115, 152-193; registry.go:41-64).
BadRequestBlamesTheLink ==
    (reply = 400 /\ Listed(given)) =>
        \/ why = "service"
        \/ why = "landing" /\ given.scheme = "http"
        \/ given.host = Www(Apex["wesendit"])

\* Every request is answered, unless we.tl keeps sending a client that stays
\* from short link to short link (wetransfer.go:60-102).
EveryLinkIsAnswered ==
    \/ <>(pc = "answered")
    \/ [](~gone) /\ []<>(pc = "following")
=============================================================================
