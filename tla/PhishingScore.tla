---------------------------- MODULE PhishingScore ----------------------------
(***************************************************************************)
(* The phishing analysis of one message: the list of findings analyse      *)
(* builds check by check, with its caps and deduplications, and the        *)
(* verdict of their sum, against a definition that counts each kind of     *)
(* evidence.  What analyse extracts from the raw message is the input: the *)
(* sender's host, the other addresses, the brands its display name claims  *)
(* and the links of its HTML body.  Hosts are names; which organisation a  *)
(* host belongs to, which brand domain it lies under and which it          *)
(* resembles are given with them.                                          *)
(***************************************************************************)
EXTENDS Integers, Sequences, FiniteSets, FiniteSetsExt, SequencesExt

CONSTANTS PhHosts, PhNoHost,
          PhOrgOf,      \* registrable_domain
          PhUnder,      \* pairs <<host, brand domain>>: on_domain
          PhNear,       \* pairs <<host, brand domain>> at an edit distance of 1 or 2
          PhIdn,        \* hosts with internationalized characters
          PhBrands,     \* the brand list: a sequence of [domain, name]
          PhInputs      \* the messages analysed

\* The absent host is none; the brand list and the links of a message are lists.
ASSUME PhAssumption ==
    /\ PhNoHost \notin PhHosts
    /\ PhBrands \in Seq(Range(PhBrands))
    /\ \A in \in PhInputs : in.links \in Seq(Range(in.links))

VARIABLES phInput, phFindings, phScore

phVars == <<phInput, phFindings, phScore>>

\* A finding's kind and its points.
PhPoints ==
    [dmarc_fail |-> 40, spf_fail |-> 30, dkim_fail |-> 25, reply_to_mismatch |-> 20,
     return_path_mismatch |-> 20, display_name_spoof |-> 40, domain_lookalike |-> 50,
     idn_homograph |-> 35, link_mismatch |-> 20, openphish_url |-> 70, openphish_domain |-> 50]

PhIf(condition, kind) == IF condition THEN <<kind>> ELSE <<>>

PhSameOrg(a, b) == PhOrgOf[a] = PhOrgOf[b]

-----------------------------------------------------------------------------
(* analyse *)

PhAuthFindings(in) ==
    PhIf("dmarc" \in in.failed, "dmarc_fail") \o PhIf("spf" \in in.failed, "spf_fail")
        \o PhIf("dkim" \in in.failed, "dkim_fail")

PhOtherOrg(in, host) == in.from # PhNoHost /\ host # PhNoHost /\ ~PhSameOrg(host, in.from)
PhAddressFindings(in) ==
    PhIf(PhOtherOrg(in, in.replyTo), "reply_to_mismatch")
        \o PhIf(PhOtherOrg(in, in.returnPath), "return_path_mismatch")

PhNames == {PhBrands[i].name : i \in DOMAIN PhBrands}

\* domains_by_brand: a brand may have several legitimate domains.
PhDomainsOf(name) == {PhBrands[i].domain : i \in {j \in DOMAIN PhBrands : PhBrands[j].name = name}}

PhSpoofs(in, name) ==
    /\ name \in in.claims /\ in.from # PhNoHost
    /\ \A d \in PhDomainsOf(name) : <<in.from, d>> \notin PhUnder

PhLooksLike(in, domain) ==
    /\ in.from # PhNoHost /\ <<in.from, domain>> \notin PhUnder /\ ~PhSameOrg(in.from, domain)
    /\ <<in.from, domain>> \in PhNear

\* One finding for each brand and each brand domain, before the deduplication.
PhBrandFindings(in) ==
    [i \in 1 .. Cardinality({n \in PhNames : PhSpoofs(in, n)}) |-> "display_name_spoof"]
        \o FlattenSeq([i \in DOMAIN PhBrands |->
                           PhIf(PhLooksLike(in, PhBrands[i].domain), "domain_lookalike")])

\* Fault: duplicates stay.
PhKeepAll(findings, kind) == findings

\* dedup_by_id: only the first finding of the kind stays.
PhOnce(findings, kind) ==
    FlattenSeq([i \in DOMAIN findings |->
        PhIf(findings[i] # kind \/ \A j \in 1 .. i - 1 : findings[j] # kind, findings[i])])

\* The loop over mismatched_links breaks once it has given 60 points.
PhLinkFindings(in) ==
    LET n == Cardinality({i \in DOMAIN in.links :
                in.links[i].text # PhNoHost /\ ~PhSameOrg(in.links[i].text, in.links[i].href)})
    IN  [i \in 1 .. Min({n, 3}) |-> "link_mismatch"]

\* A link whose address is in the feed, else one whose host is.
PhListed(in, link) ==
    IF link.listed THEN <<"openphish_url">>
    ELSE PhIf(link.href \in in.feedHosts, "openphish_domain")

\* An empty feed is not consulted at all.
PhFeedFindings(in) ==
    IF in.feedEmpty THEN <<>>
    ELSE FlattenSeq([i \in DOMAIN in.links |-> PhListed(in, in.links[i])])

\* Trusting a sender covers every host of its organisation.
PhTrusted(in) == in.from # PhNoHost /\ PhOrgOf[in.from] \in in.trusted

PhAnalyse(in) ==
    IF ~in.parses \/ PhTrusted(in) THEN <<>>
    ELSE LET headers == PhAuthFindings(in) \o PhAddressFindings(in) \o PhBrandFindings(in)
             once == PhOnce(PhOnce(headers, "display_name_spoof"), "domain_lookalike")
             idn == PhIf(in.from \in PhIdn, "idn_homograph")
             feed == PhOnce(PhOnce(PhFeedFindings(in), "openphish_url"), "openphish_domain")
         IN  once \o idn \o PhLinkFindings(in) \o feed

PhSum(findings) == FoldSeq(LAMBDA kind, sum : sum + PhPoints[kind], 0, findings)

PhVerdict(score) ==
    CASE score <= 20 -> "clean" [] score \in 21 .. 55 -> "suspicious" [] OTHER -> "phishing"

-----------------------------------------------------------------------------
PhInit == phInput \in PhInputs /\ phFindings = <<>> /\ phScore = -1

PhRun ==
    /\ phScore = -1
    /\ phFindings' = PhAnalyse(phInput)
    /\ phScore' = PhSum(phFindings')
    /\ UNCHANGED phInput

PhSpec == PhInit /\ [][PhRun]_phVars

-----------------------------------------------------------------------------
(* Properties, of every analysed message. *)

\* The evidence a message gives: each kind counts once, links at most three times.
PhEvidence(in) ==
    {kind \in DOMAIN PhPoints : in.parses /\ ~(in.from # PhNoHost /\ PhOrgOf[in.from] \in in.trusted) /\
        CASE kind = "dmarc_fail" -> "dmarc" \in in.failed
          [] kind = "spf_fail" -> "spf" \in in.failed
          [] kind = "dkim_fail" -> "dkim" \in in.failed
          [] kind = "reply_to_mismatch" -> PhOtherOrg(in, in.replyTo)
          [] kind = "return_path_mismatch" -> PhOtherOrg(in, in.returnPath)
          [] kind = "display_name_spoof" -> \E n \in PhNames : PhSpoofs(in, n)
          [] kind = "domain_lookalike" ->
                \E i \in DOMAIN PhBrands : PhLooksLike(in, PhBrands[i].domain)
          [] kind = "idn_homograph" -> in.from \in PhIdn
          [] kind = "openphish_url" -> ~in.feedEmpty /\ \E i \in DOMAIN in.links : in.links[i].listed
          [] kind = "openphish_domain" ->
                ~in.feedEmpty /\ \E i \in DOMAIN in.links :
                    ~in.links[i].listed /\ in.links[i].href \in in.feedHosts
          [] OTHER -> FALSE}

\* The caps and deduplications leave the sum of the kinds of evidence, plus 20 points
\* for each of the first three misleading links (analyse, dedup_by_id).
PhSumOfKinds ==
    phScore # -1 =>
        phScore = FoldSet(LAMBDA kind, sum : sum + PhPoints[kind], 0, PhEvidence(phInput))
                  + (IF PhTrusted(phInput) \/ ~phInput.parses THEN 0
                     ELSE 20 * Len(PhLinkFindings(phInput)))

\* A sender on any of a brand's domains is not taken for a spoof of that brand: with
\* no other brand claimed there is no such finding (domains_by_brand).
PhOwnBrandIsNoSpoof ==
    \A i \in DOMAIN PhBrands :
        /\ <<phInput.from, PhBrands[i].domain>> \in PhUnder
        /\ phInput.claims = {PhBrands[i].name}
        => "display_name_spoof" \notin Range(phFindings)

\* "exact URL hit is near-certain phishing": whatever else is found, also when the
\* host of the link is listed too, the verdict says so unless the sender is trusted.
PhListedUrlIsPhishing ==
    phScore # -1 /\ phInput.parses /\ ~PhTrusted(phInput) /\ ~phInput.feedEmpty
        /\ (\E i \in DOMAIN phInput.links : phInput.links[i].listed)
    => PhVerdict(phScore) = "phishing"

\* Trust in an organisation covers all of its hosts: "subdomains collapse onto the
\* organisation" (sender_trust_domain).
PhTrustCoversHosts ==
    \A h \in PhHosts :
        h = phInput.from /\ phScore # -1 /\ PhOrgOf[h] \in phInput.trusted => phScore = 0

(* What the score, the verdict and the lists of trust and of URLs mean,    *)
(* under one name.                                                         *)
PhVerdictFits == PhSumOfKinds /\ PhOwnBrandIsNoSpoof /\ PhListedUrlIsPhishing /\ PhTrustCoversHosts
=============================================================================
