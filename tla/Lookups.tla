-------------------------------- MODULE Lookups --------------------------------
(***************************************************************************)
(* The tables of network-intel (addresses, autonomous systems) and of       *)
(* telco-intel (number prefixes).  An IPv4 address is its four octets, a    *)
(* phone number the sequence of its characters, an autonomous system its    *)
(* number: normalizeAsn makes AS14061, as14061 and 14061 one.               *)
(***************************************************************************)
EXTENDS RiskScores, Sequences, SequencesExt

-----------------------------------------------------------------------------
(* ProxyDetector *)

DATACENTER_ASNS ==
    {14061, 16509, 15169, 8075, 13335, 20473, 63949, 24940, 16276, 36351, 396982, 14618, 7224}
VPN_PROVIDER_ASNS ==
    {9009, 20860, 210644, 39351, 204953, 62240, 35041, 40065, 9268, 25820, 53667}

NoAsn == 0
isDatacenterIp(asn) == asn \in DATACENTER_ASNS
isVpnIp(asn) == asn \in VPN_PROVIDER_ASNS

\* Every range is a /24 or a /16: the leading octets of its addresses.
KNOWN_PROXY_CIDRS ==
    {<<192, 168, 100>>, <<10, 8>>, <<172, 16, 100>>, <<198, 51, 100>>, <<203, 0, 113>>}

isIpInCidr(ip, range) == IsPrefix(range, ip)
isKnownProxy(ip) == \E range \in KNOWN_PROXY_CIDRS : isIpInCidr(ip, range)

\* The exit nodes of a file's lines; a file that is absent or unreadable has
\* no line, an empty line or a comment is no address.
TorExitNodes(lines) == {line \in lines : Len(line) = 4}

-----------------------------------------------------------------------------
(* GeoIpService and NetworkIntelService.analyze *)

\* database: [address -> [country, asn]], or without any address when
\* GeoLite2 is not installed.
GeoLookup(database, ip) ==
    IF ip \in DOMAIN database THEN database[ip] ELSE [country |-> "none", asn |-> NoAsn]

AddressRisk(database, exits, vpnDetection, ip, msisdn, billing) ==
    LET geo == GeoLookup(database, ip)
    IN  NetworkRisk(ip \in exits, isKnownProxy(ip), vpnDetection /\ isVpnIp(geo.asn),
                    isDatacenterIp(geo.asn), MismatchScore(geo.country, msisdn, billing))

-----------------------------------------------------------------------------
(* MsisdnLookupService *)

Digits == {"0", "1", "2", "3", "4", "5", "6", "7", "8", "9"}
TR_COUNTRY_CODE == <<"9", "0">>
NoNumber == <<>>

After(prefix, s) == SubSeq(s, Len(prefix) + 1, Len(s))

\* The digits of a number in international form: +90 5..., 0090 5... and
\* 05... become 905...; what is not all digits is no number.
normalize(msisdn) ==
    LET plus  == IF IsPrefix(<<"+">>, msisdn) THEN Tail(msisdn) ELSE msisdn
        zeros == IF IsPrefix(<<"0", "0">>, plus) THEN After(<<"0", "0">>, plus) ELSE plus
        local == IF IsPrefix(<<"0">>, zeros) THEN TR_COUNTRY_CODE \o Tail(zeros) ELSE zeros
    IN  IF \A i \in DOMAIN local : local[i] \in Digits THEN local ELSE NoNumber

PrefixRows(first, last, operator, prepaid) ==
    {[prefix |-> first \o <<d>>, operator |-> operator, prepaid |-> prepaid] : d \in last}

TR_PREFIXES ==
    PrefixRows(<<"9", "0">>, {"5"}, "Turkcell", 40)
        \union PrefixRows(<<"9", "0">>, {"6"}, "Turkcell", 70)
        \union PrefixRows(<<"5", "4">>, {"1"}, "Turkcell", 60)
        \union PrefixRows(<<"5", "4">>, {"2", "3", "4", "5"}, "Turkcell", 50)
        \union PrefixRows(<<"5", "4">>, {"6", "7", "8", "9"}, "Vodafone", 50)
        \union PrefixRows(<<"5", "5">>, {"1", "2", "3", "4", "5"}, "Turk Telekom", 45)
        \union PrefixRows(<<"5", "5">>, {"9"}, "Turk Telekom", 50)

\* The rows of the table a number matches: at most one.
lookup(msisdn) ==
    {row \in TR_PREFIXES : IsPrefix(TR_COUNTRY_CODE \o row.prefix, normalize(msisdn))}

PrefixProbability(msisdn) ==
    IF lookup(msisdn) = {} THEN -1 ELSE (CHOOSE row \in lookup(msisdn) : TRUE).prepaid
=============================================================================
