------------------------------ MODULE LinksProofs ------------------------------
(***************************************************************************)
(* A theorem about Links, for any landings of the short links' redirects.  *)
(***************************************************************************)
EXTENDS Links, SequenceTheorems, TLAPS

-----------------------------------------------------------------------------
(* The table of hosts *)

\* What makes a host a service's: its first label, or the one after www.
Name(p) == Apex[p][1]

LEMMA ApexNames ==
  /\ Apex["sendgb"] = <<"sendgb", "com">> /\ Apex["sendspace"] = <<"sendspace", "com">>
  /\ Apex["transfernow"] = <<"transfernow", "net">> /\ Apex["wesendit"] = <<"wesendit", "com">>
  BY DEF Apex, Services

LEMMA WwwLabels ==
  ASSUME NEW p \in Services \ {"wetransfer"}
  PROVE  Www(Apex[p])[1] = "www" /\ Www(Apex[p])[2] = Name(p)
  <1>1. \A a, b : (<<"www">> \o <<a, b>>)[1] = "www" /\ (<<"www">> \o <<a, b>>)[2] = a
    OBVIOUS
  <1> QED BY <1>1, ApexNames DEF Www, Name, Services

\* No host is registered twice.
LEMMA HostsApart ==
  ASSUME NEW p \in Services, NEW q \in Services, NEW h \in Hosts(p), h \in Hosts(q)
  PROVE  p = q
  <1> DEFINE Label(host) == IF host[1] = "www" THEN host[2] ELSE host[1]
  <1>1. ASSUME NEW s \in Services \ {"wetransfer"}, h \in Hosts(s) PROVE Label(h) = s
    <2>1. Name(s) = s /\ Apex[s][1] = s /\ s # "www"
      BY ApexNames DEF Name, Services
    <2>2. h = Apex[s] \/ h = Www(Apex[s])
      BY <1>1 DEF Hosts
    <2> QED BY <2>1, <2>2, WwwLabels
  <1>2. ASSUME h \in Hosts("wetransfer") PROVE Label(h) \in {"wetransfer", "we"}
    BY <1>2 DEF Hosts, WeTransfer, WeTL
  <1> HIDE DEF Label
  <1> QED BY <1>1, <1>2 DEF Services

LEMMA WeTLServed == WeTL \in Hosts("wetransfer") /\ "wetransfer" \in Services
  BY DEF Hosts, Services

\* A listed link goes to the one service it is of.
LEMMA ListedServed ==
  ASSUME Listed(given)
  PROVE  /\ Candidates(given) # {}
         /\ \A p \in Candidates(given) :
              /\ p \in Services /\ given.host \in Hosts(p) /\ given.dress = "plain"
              /\ given.scheme # "none"
              /\ given.path \in Forms(p) \cup (IF given.host = WeTL THEN ShortForms ELSE {})
  <1>1. given.scheme # "none" /\ given.dress = "plain"
    BY DEF Listed
  <1>2. PICK p \in Services :
          /\ given.host \in Hosts(p)
          /\ given.path \in Forms(p) \cup (IF given.host = WeTL THEN ShortForms ELSE {})
    BY DEF Listed
  <1>3. Candidates(given) = {q \in Services : given.host \in Hosts(q)}
    BY <1>1, <1>2 DEF Candidates
  <1>4. \A q \in Candidates(given) : q = p
    BY <1>2, <1>3, HostsApart
  <1> QED BY <1>1, <1>2, <1>3, <1>4

-----------------------------------------------------------------------------
(* Who is blamed *)

\* Resolve runs for a service that has the host of the link given, and is at
\* another link only if that was one of we.tl's short ones.
Resolving ==
    /\ pc = "arrived" => link = given
    /\ pc \in {"parsing", "following", "asking"} =>
          /\ service \in Candidates(given)
          /\ link = given \/ Short(given)
    /\ pc = "following" => Short(given)
Unanswered == pc # "answered" => reply # 400
LinkInv == given \in Link /\ Resolving /\ Unanswered /\ BadRequestBlamesTheLink

\* An answer that leaves the link unblamed, or blames it and is right.
LEMMA Blamed ==
  ASSUME NEW status, NEW about, LinkInv, Answer(status, about),
         (status = 400 /\ Listed(given)) =>
            \/ about = "service"
            \/ about = "landing" /\ given.scheme = "http"
            \/ given.host = Www(Apex["wesendit"])
  PROVE  LinkInv'
  <1>1. pc' = "answered" /\ reply' = status /\ why' = about /\ given' = given
    BY DEF Answer
  <1>2. Listed(given)' <=> Listed(given)
    BY <1>1
  <1> QED BY <1>1, <1>2 DEF LinkInv, Resolving, Unanswered, BadRequestBlamesTheLink

LEMMA OtherFailures ==
  ASSUME NEW error \in {"password", "other"}, NEW about, LinkInv, Fail(error, about)
  PROVE  LinkInv'
  <1>1. \E status \in {200, 401, 502} : Answer(status, about)
    BY DEF Fail, NeedsPassword
  <1> QED BY <1>1, Blamed

LEMMA FormatFails ==
  ASSUME LinkInv, NEW about, Fail("format", about),
         (~IsShortURL /\ Listed(given)) =>
            \/ about = "service"
            \/ about = "landing" /\ given.scheme = "http"
            \/ given.host = Www(Apex["wesendit"])
  PROVE  LinkInv'
  <1>1. CASE IsShortURL
    <2>1. Answer(502, about)
      BY <1>1 DEF Fail
    <2> QED BY <2>1, Blamed
  <1>2. CASE ~IsShortURL
    <2>1. Answer(400, about)
      BY <1>2 DEF Fail
    <2> QED BY <1>2, <2>1, Blamed
  <1> QED BY <1>1, <1>2

LEMMA LinkParsed ==
  ASSUME LinkInv, ParseURL
  PROVE  LinkInv'
  <1>0. pc = "parsing" /\ service \in Candidates(given) /\ (link = given \/ Short(given))
    BY DEF ParseURL, LinkInv, Resolving
  <1>1. CASE /\ (Short(link) /\ GoOn("following")) \/ GoOn("asking")
             /\ UNCHANGED link
    BY <1>0, <1>1 DEF GoOn, LinkInv, Resolving, Unanswered, BadRequestBlamesTheLink, Listed,
       Candidates, Short
  <1>2. CASE ~Short(link) /\ ~Accepted(link) /\ Fail("format", IF link = given THEN "link" ELSE "landing")
    <2>1. CASE link = given
      <3>1. ASSUME Listed(given) PROVE given.host = Www(Apex["wesendit"])
        <4>1. /\ service \in Services /\ given.host \in Hosts(service) /\ given.dress = "plain"
              /\ given.path \in Forms(service) \cup (IF given.host = WeTL THEN ShortForms ELSE {})
          BY <1>0, <3>1, ListedServed
        <4>2. given.path \in Forms(service)
          <5>1. given.host = WeTL => service = "wetransfer"
            BY <4>1, WeTLServed, HostsApart
          <5> QED BY <1>2, <2>1, <4>1, <5>1 DEF Short
        <4>3. service # "wetransfer" /\ given.host \notin IF service = "wesendit" THEN {Apex[service]} ELSE Hosts(service)
          BY <1>2, <2>1, <4>1, <4>2 DEF Accepted
        <4> QED BY <4>1, <4>3 DEF Hosts
      <3> QED BY <1>2, <2>1, <3>1, FormatFails
    <2>2. CASE link # given
      <3>1. ASSUME ~IsShortURL, Listed(given) PROVE given.scheme = "http"
        <4>1. given.host = WeTL /\ given.dress = "plain"
          BY <1>0, <2>2 DEF Short
        <4>2. given.scheme \in {"https", "http", "none"} /\ given.scheme # "none"
          BY <3>1 DEF LinkInv, Link, Listed
        <4> QED BY <3>1, <4>1, <4>2 DEF IsShortURL
      <3> QED BY <1>2, <2>2, <3>1, FormatFails
    <2> QED BY <2>1, <2>2
  <1> QED BY <1>1, <1>2 DEF ParseURL

\* 400 blames the link only when a link as the services hand them out is at
\* fault, or the service says so, for whatever the short links lead to
\* (download.go:74-115, 152-193; registry.go:41-64).
THEOREM LinksAreBlamedRightly == Spec => []BadRequestBlamesTheLink
  <1>1. Init => LinkInv
    BY DEF Init, LinkInv, Resolving, Unanswered, BadRequestBlamesTheLink
  <1>2. LinkInv /\ [Next]_vars => LinkInv'
    <2> SUFFICES ASSUME LinkInv, [Next]_vars PROVE LinkInv'
      OBVIOUS
    <2>1. CASE NoProvider
      <3>1. Answer(400, "link") /\ ~Listed(given)
        BY <2>1, ListedServed DEF NoProvider
      <3> QED BY <3>1, Blamed
    <2>2. CASE ResolveProvider
      BY <2>2 DEF ResolveProvider, LinkInv, Resolving, Unanswered, BadRequestBlamesTheLink, Listed,
         Candidates
    <2>3. CASE ParseURL
      BY <2>3, LinkParsed
    <2>4. CASE Follow
      <3>1. ASSUME NEW l \in Landings, link' = l, GoOn("parsing") PROVE LinkInv'
        BY <2>4, <3>1 DEF Follow, GoOn, LinkInv, Resolving, Unanswered, BadRequestBlamesTheLink,
           Listed, Candidates, Short
      <3> QED BY <2>4, <3>1, OtherFailures DEF Follow
    <2>5. CASE Ask
      <3>1. CASE call' = call + 1 /\ UNCHANGED <<given, mode, gone, pc, service, link, reply, why>>
        BY <3>1 DEF LinkInv, Resolving, Unanswered, BadRequestBlamesTheLink, Listed, Candidates, Short
      <3> QED BY <2>5, <3>1, OtherFailures DEF Ask
    <2>6. CASE Refused
      BY <2>6, OtherFailures, FormatFails DEF Refused
    <2>7. CASE Resolved
      <3>1. \E status \in {200, 413} : Answer(status, "file")
        BY <2>7 DEF Resolved
      <3> QED BY <3>1, Blamed
    <2>8. CASE Leave \/ UNCHANGED vars
      BY <2>8 DEF Leave, vars, LinkInv, Resolving, Unanswered, BadRequestBlamesTheLink, Listed,
         Candidates, Short
    <2> QED BY <2>1, <2>2, <2>3, <2>4, <2>5, <2>6, <2>7, <2>8 DEF Next, Handler
  <1>3. LinkInv => BadRequestBlamesTheLink
    BY DEF LinkInv
  <1> QED BY <1>1, <1>2, <1>3, PTL DEF Spec
=============================================================================
