----------------------------- MODULE PageRecords -----------------------------
(***************************************************************************)
(* From a fetched page to a record: what is common to all pages            *)
(* (extraction/common.py, jsonld.py, datalayer.py), the two production     *)
(* adapters (figure_official_site.py and lovehotel_couples.py), the        *)
(* validation of their record (validation.py) and what the pipeline makes  *)
(* of it. EntityStore goes on from there.                                  *)
(*                                                                         *)
(* A page is what it shows: JSON-LD blocks, dataLayer pushes, a heading,   *)
(* numbers in its text and in its URLs. A value has a key and a kind, and  *)
(* is of a thing: the one whose name, or whose code, the string is. Two    *)
(* codes of one thing are not told apart; a string that one thing has for  *)
(* its own is of that thing wherever it stands, under whatever key.        *)
(* A brand and a price are given, or not, with the object they are in. The *)
(* fields of a record that no other one stands in for (prefecture ...) are *)
(* left out, as are scripts that are not strict JSON, which are skipped,   *)
(* and what Python's limits refuse (nesting, digits, lone surrogates).     *)
(***************************************************************************)
EXTENDS SequencesExt

CONSTANTS
    Adapters,  \* subset of {"figure_official_site", "lovehotel_couples"}
    Things,    \* what a page may be about, and a value be of
    Literal,   \* what a value is of that str() has made of 0, false, [] or {}
    Pages,     \* the pages a job of each adapter may fetch, see PagesAssumption
    MaxPages,  \* bound on pages collected
    None       \* no value, no block, no URL

\* text; text with a postal code in it; white space; '' or null; 0, false, [] or {}; and
\* what is true: a number (or true), a list, an object
Kinds == {"text", "postal", "blank", "empty", "falsy", "number", "list", "object"}

\* what the adapters look for in JSON-LD, in the dataLayer, and elsewhere on a page
Keys == {"name", "telephone", "address", "gtin", "mpn", "sku", "brand", "category", "price",
         "size", "image"}
        \cup {"item_id", "item_name", "item_brand", "item_category", "item_category2",
              "product_master_code", "product_name"}
        \cup {"heading", "facility"}

Value == [of : Things \cup {Literal}, key : Keys, kind : Kinds]

IsSeq(s) == s \in Seq(Range(s))
Typed(has) == \A key \in DOMAIN has : key \in Keys /\ has[key].of \in Things /\ has[key].kind \in Kinds
UrlType(u) == IsSeq(u.ids) /\ Range(u.ids) \subseteq Things /\ u.http \in BOOLEAN

ASSUME AdaptersAssumption == Adapters \subseteq {"figure_official_site", "lovehotel_couples"}
ASSUME LiteralAssumption == Literal \notin Things
ASSUME NoneAssumption == None \notin Value
\* A heading is the text of the <h1>, a number what _PHONE_RE finds (of kind "postal" if
\* three digits, a dash and four are part of it) or a postal code. The links of a page are
\* wellformed if urljoin() and urlsplit() take every href, src and sameAs on it.
PageType(page) ==
    /\ page.about \in Things
    /\ IsSeq(page.blocks)
    /\ \A b \in Range(page.blocks) : b # None /\ Typed(b.has)
    /\ IsSeq(page.pushes)
    /\ \A push \in Range(page.pushes) :
          /\ Typed(push.context) /\ push.listed \in BOOLEAN
          /\ IsSeq(push.items) /\ \A item \in Range(push.items) : Typed(item)
    /\ page.heading # None => page.heading \in Value /\ page.heading.kind = "text"
    /\ IsSeq(page.numbers)
    /\ \A v \in Range(page.numbers) : v \in Value /\ v.kind \in {"text", "postal"}
    /\ UrlType(page.url)
    /\ page.canonical # None => UrlType(page.canonical)
    /\ page.wellformed \in BOOLEAN

ASSUME PagesAssumption == \A a \in Adapters : \A page \in Pages[a] : PageType(page)

VARIABLES
    adapter,   \* jobs.adapter
    results    \* for each page collected: what became of it, and its record

vars == <<adapter, results>>

Init == adapter \in Adapters /\ results = <<>>

FirstOf(values) ==
    LET i == SelectInSeq(values, LAMBDA v : v # None) IN IF i = 0 THEN None ELSE values[i]

-----------------------------------------------------------------------------
(* What every adapter is given: extract_common(), extract_json_ld().       *)

Given(block, key) ==
    IF block # None /\ key \in DOMAIN block.has
    THEN [of |-> block.has[key].of, key |-> key, kind |-> block.has[key].kind] ELSE None

\* what Python takes for true
Truthy(v) == v # None /\ v.kind \notin {"empty", "falsy"}

\* an address is the text, or the object of texts, that a block gives; other kinds are not looked at
Offered(block, key) ==
    LET v == Given(block, key)
    IN IF v # None /\ key = "address" /\ v.kind \notin {"text", "postal", "blank", "empty"}
       THEN None ELSE v

\* the first block that gives something true, whatever the block is about
FirstGiven(page, key) ==
    FirstOf([i \in DOMAIN page.blocks |->
                IF Truthy(Offered(page.blocks[i], key)) THEN Offered(page.blocks[i], key) ELSE None])

\* what `value = value or block.get(key)` is left with when no block gives something true: a
\* name of 0 is like none, a telephone of 0 is there and no text
LeftOver(page, key) ==
    IF page.blocks = <<>> THEN None ELSE Given(page.blocks[Len(page.blocks)], key)

CommonName(page) == FirstOf(<<FirstGiven(page, "name"), page.heading>>)

CommonTelephone(page) ==
    FirstOf(<<FirstGiven(page, "telephone"),
              FirstOf([i \in DOMAIN page.numbers |->
                          IF page.numbers[i].key = "telephone" THEN page.numbers[i] ELSE None]),
              LeftOver(page, "telephone")>>)

\* urljoin(), urlsplit() raise a ValueError on some links, and html.unescape() a TypeError
\* on a number; a list passes through it, unless a bare "&" is in it (left out)
CommonRaises(page) ==
    \/ ~page.wellformed
    \/ CommonName(page) # None /\ CommonName(page).kind = "number"

CanonicalUrl(page) == IF page.canonical = None THEN page.url ELSE page.canonical

\* the first block of one of these types
FirstOfType(page, types) ==
    FirstOf([i \in DOMAIN page.blocks |->
                IF page.blocks[i].types \cap types # {} THEN page.blocks[i] ELSE None])

-----------------------------------------------------------------------------
(* figure_official_site: JSON-LD first, then the dataLayer.                *)

\* mutant: only the first block of a page is looked at
LeadingProduct(page) ==
    IF page.blocks # <<>> /\ "Product" \in page.blocks[1].types THEN page.blocks[1] ELSE None

Product(page) == FirstOfType(page, {"Product"})

\* every item of an ecommerce push, with what is pushed next to it; a push without
\* a list of items is an item itself
ItemsOf(push) ==
    LET entry(has) ==
            [key \in DOMAIN push.context \cup DOMAIN has |->
                LET v == IF key \in DOMAIN has THEN has[key] ELSE push.context[key]
                IN [of |-> v.of, key |-> key, kind |-> v.kind]]
    IN IF push.listed THEN [i \in DOMAIN push.items |-> entry(push.items[i])]
       ELSE IF DOMAIN push.context # {} THEN <<entry(<<>>)>> ELSE <<>>

LayerItems(page) == FlattenSeq([i \in DOMAIN page.pushes |-> ItemsOf(page.pushes[i])])

\* mutant: the first item on the page wins
FromFirstItem(page, key) ==
    LET items == LayerItems(page)
        i == SelectInSeq(items, LAMBDA item : key \in DOMAIN item)
    IN IF i = 0 THEN None ELSE items[i][key]

\* _merge_data_layer_items(): the last item that has the key wins, whatever it is of, and
\* be it null
FromLayer(page, key) ==
    LET items == LayerItems(page)
        i == SelectLastInSeq(items, LAMBDA item : key \in DOMAIN item)
    IN IF i = 0 THEN None ELSE items[i][key]

\* _clean_str(): only null and white space are nothing; 0, false, [] and {} become texts
\* that all things have in common
Clean(v) ==
    IF v = None \/ v.kind \in {"blank", "empty"} THEN None
    ELSE [of |-> IF v.kind = "falsy" THEN Literal ELSE v.of, key |-> v.key, kind |-> "text"]

CommonNames(page) == <<CommonName(page)>>
InProduct(page, keys) == [i \in DOMAIN keys |-> Clean(Given(Product(page), keys[i]))]
InLayer(page, keys) == [i \in DOMAIN keys |-> Clean(FromLayer(page, keys[i]))]

Codes == <<"gtin", "mpn", "sku">>
LayerCodes == <<"product_master_code", "item_id">>

\* mutant: the dataLayer has the say
LayerFirstRecord(page) ==
    [name |-> FirstOf(InProduct(page, <<"name">>) \o CommonNames(page)
                      \o InLayer(page, <<"item_name", "product_name">>)),
     external_id |-> FirstOf(InProduct(page, Codes) \o InLayer(page, LayerCodes)),
     brand |-> FirstOf(InLayer(page, <<"item_brand">>) \o InProduct(page, <<"brand">>)),
     series |-> FirstOf(InLayer(page, <<"item_category2", "item_category">>)
                        \o InProduct(page, <<"category">>)),
     price |-> FirstOf(InLayer(page, <<"price">>) \o InProduct(page, <<"price">>)),
     telephone |-> None, canonical_url |-> CanonicalUrl(page)]

FigureRecord(page) ==
    [name |-> FirstOf(InProduct(page, <<"name">>) \o CommonNames(page)
                      \o InLayer(page, <<"item_name", "product_name">>)),
     external_id |-> FirstOf(InProduct(page, Codes) \o InLayer(page, LayerCodes)),
     brand |-> FirstOf(InProduct(page, <<"brand">>) \o InLayer(page, <<"item_brand">>)),
     series |-> FirstOf(InProduct(page, <<"category">>)
                        \o InLayer(page, <<"item_category2", "item_category">>)),
     price |-> FirstOf(InProduct(page, <<"price">>) \o InLayer(page, <<"price">>)),
     telephone |-> None, canonical_url |-> CanonicalUrl(page)]

\* images[:5] raises on what is neither text nor a list. Without a size the scale is looked
\* for in the name, which raises if that is no text.
FigureRaises(page) ==
    \/ /\ Given(Product(page), "image") # None
       /\ Given(Product(page), "image").kind \in {"number", "object"}
    \/ /\ Clean(Given(Product(page), "size")) = None
       /\ FigureRecord(page).name # None /\ FigureRecord(page).name.kind \in {"list", "object"}

-----------------------------------------------------------------------------
(* lovehotel_couples: any of three signs makes a page a facility's.        *)

BusinessTypes == {"LodgingBusiness", "Hotel", "LocalBusiness"}

\* the first number of three digits or more in a path, be it a facility's or an area's
FacilityId(page) ==
    FirstOf([i \in 1 .. Len(CanonicalUrl(page).ids \o page.url.ids) |->
                [of |-> (CanonicalUrl(page).ids \o page.url.ids)[i],
                 key |-> "facility", kind |-> "text"]])

\* _extract_address_from_text(): three digits, a dash and four are found in a telephone
\* number as well, if it is written with dashes
TextAddress(page) ==
    FirstOf([i \in DOMAIN page.numbers |->
                IF page.numbers[i].kind = "postal"
                THEN [page.numbers[i] EXCEPT !.key = "address"] ELSE None])

Address(page) == FirstOf(<<FirstGiven(page, "address"), TextAddress(page)>>)

IsFacilityPage(page) ==
    \/ FirstOfType(page, BusinessTypes) # None
    \/ Address(page) # None /\ Address(page).kind = "postal"
    \/ FacilityId(page) # None

\* an @type that is an object cannot be put into a set
CouplesRaises(page) ==
    \E i \in DOMAIN page.blocks :
        /\ "object" \in page.blocks[i].types
        /\ \A j \in 1 .. i - 1 : page.blocks[j].types \cap BusinessTypes = {}

CouplesRecord(page) ==
    [name |-> CommonName(page), external_id |-> FacilityId(page), address |-> Address(page),
     telephone |-> CommonTelephone(page), canonical_url |-> CanonicalUrl(page)]

-----------------------------------------------------------------------------
(* validate_record(), persist() and _handle_extracted().                   *)

Skips(page) ==
    IF adapter = "figure_official_site" THEN Product(page) = None ELSE ~IsFacilityPage(page)

RecordOf(page) ==
    IF adapter = "figure_official_site" THEN FigureRecord(page) ELSE CouplesRecord(page)

Raises(page) ==
    \/ CommonRaises(page)
    \/ adapter = "figure_official_site" /\ ~Skips(page) /\ FigureRaises(page)
    \/ adapter = "lovehotel_couples" /\ CouplesRaises(page)

IsText(v) == v = None \/ v.kind \in {"text", "postal", "blank", "empty"}

\* what compute_fingerprint() and the Deduplicator know a record by: the bare string, not
\* the key it was found under
IdOf(record) == IF record.external_id = None THEN None ELSE record.external_id.of

\* a name is required of the record, but a blank one passes
Valid(record) ==
    /\ record.name # None
    /\ IsText(record.name) /\ IsText(record.telephone) /\ IsText(record.external_id)
    /\ record.canonical_url.http

\* a page the adapter raises on is left `fetching` (FetchQueue's Explode)
Outcome(page) ==
    IF Raises(page) THEN "raised"
    ELSE IF Skips(page) THEN "rejected"
    ELSE IF Valid(RecordOf(page)) THEN "persisted" ELSE "review"

\* a page is collected, or once more when it has come of age
Collect(page) ==
    /\ Cardinality(DOMAIN results \cup {page}) <= MaxPages
    /\ results' = [p \in DOMAIN results \cup {page} |->
                      IF p # page THEN results[p]
                      ELSE [outcome |-> Outcome(page),
                            record |-> IF Outcome(page) = "persisted" THEN RecordOf(page) ELSE None]]
    /\ UNCHANGED adapter

Next == \E page \in Pages[adapter] : Collect(page)

Spec == Init /\ [][Next]_vars

-----------------------------------------------------------------------------
(* Properties.                                                             *)

HasProduct(page) == \E b \in Range(page.blocks) : "Product" \in b.types

\* the block of the first product a page tells of
Stated(page) ==
    page.blocks[CHOOSE i \in DOMAIN page.blocks :
        /\ "Product" \in page.blocks[i].types
        /\ \A j \in 1 .. i - 1 : "Product" \notin page.blocks[j].types]

Persisted == {page \in DOMAIN results : results[page].outcome = "persisted"}

\* A page misleads if a number that is not its own thing's stands where the adapter looks
\* for one: a code of its Product's that is another product's string, under the same key or
\* not, or a 0 or [] that is nobody's; if its Product is without a code, the same in the last
\* dataLayer item with that key; or another number, such as an area's, first in the path.
Misleads(page) ==
    IF adapter = "figure_official_site"
    THEN LET items == LayerItems(page)
             has == Stated(page).has
             coded == {key \in DOMAIN has \cap {"gtin", "mpn", "sku"} :
                          has[key].kind \notin {"blank", "empty"}}
             foreign(v) == v.of # page.about \/ v.kind = "falsy"
         IN \/ \E key \in coded : foreign(has[key])
            \/ /\ coded = {}
               /\ \E key \in {"product_master_code", "item_id"} : \E i \in DOMAIN items :
                     /\ key \in DOMAIN items[i]
                     /\ items[i][key].kind \notin {"blank", "empty"} /\ foreign(items[i][key])
                     /\ \A j \in i + 1 .. Len(items) : key \notin DOMAIN items[j]
    ELSE LET ids == CanonicalUrl(page).ids \o page.url.ids
         IN ids # <<>> /\ Head(ids) # page.about

\* Records of two things never get one external_id, which the Deduplicator would merge
\* them on (deduplication/matcher.py:42), unless one of their pages misleads: merging
\* the dataLayer's items is not as "cheap and safe" (figure_official_site.py:157) as that.
IdsApart ==
    \A p, q \in Persisted :
        p.about # q.about /\ ~Misleads(p) /\ ~Misleads(q)
            => \/ IdOf(results[p].record) = None
               \/ IdOf(results[p].record) # IdOf(results[q].record)

\* the keys of Product that a field of a record is read from
SchemaKeys == [name |-> {"name"}, external_id |-> {"gtin", "mpn", "sku"}, brand |-> {"brand"},
               series |-> {"category"}, price |-> {"price"}]

\* Whatever else a page shows, before its Product or after, a field that Product carries
\* is the Product's, be it 0 or false: the dataLayer is "never to override JSON-LD"
\* (figure_official_site.py:158), nor is another block or the heading.
JsonLdPrevails ==
    adapter = "figure_official_site" =>
        \A page \in Persisted : \A field \in DOMAIN SchemaKeys :
            LET has == Stated(page).has
                carried == {key \in SchemaKeys[field] \cap DOMAIN has :
                               has[key].kind \notin {"blank", "empty"}}
                value == results[page].record[field]
            IN carried # {} => /\ value.key \in carried
                               /\ value.of \in {has[value.key].of, Literal}

\* the first JSON-LD block that gives something true for this key, if any, gives such a kind
FirstIs(page, key, kinds) ==
    \A i \in DOMAIN page.blocks :
        LET true(k) == /\ key \in DOMAIN page.blocks[k].has
                       /\ page.blocks[k].has[key].kind \notin {"empty", "falsy"}
        IN true(i) /\ (\A j \in 1 .. i - 1 : ~true(j)) => page.blocks[i].has[key].kind \in kinds

\* the page carries the block, or the path, of a thing, and a name for it
Presents(page) ==
    IF adapter = "figure_official_site"
    THEN /\ HasProduct(page)
         /\ "name" \in DOMAIN Stated(page).has
         /\ Stated(page).has["name"].kind \notin {"blank", "empty"}
    ELSE /\ page.about \in Range(page.url.ids)
         /\ \/ page.heading # None
            \/ \E b \in Range(page.blocks) :
                  "name" \in DOMAIN b.has /\ b.has["name"].kind \notin {"empty", "falsy"}

\* The JSON-LD is of the kinds that the code can do with. The first name must be text, of
\* whichever block, be it the shop's (white space will do next to a product), and a product's
\* image text or a list. For a facility the first telephone must be text as well, with none
\* that is 0, false, [] or {}, and no @type may be an object.
Digestible(page) ==
    IF adapter = "figure_official_site"
    THEN /\ FirstIs(page, "name", {"text", "postal", "blank"})
         /\ "image" \in DOMAIN Stated(page).has =>
                Stated(page).has["image"].kind \notin {"number", "object"}
    ELSE /\ FirstIs(page, "name", {"text", "postal"})
         /\ FirstIs(page, "telephone", {"text", "postal", "blank"})
         /\ \A b \in Range(page.blocks) :
               /\ "telephone" \in DOMAIN b.has => b.has["telephone"].kind # "falsy"
               /\ "object" \notin b.types

\* A page that presents a thing is not lost on the way: its record is persisted, under a name
\* that is text, unless its JSON-LD is not Digestible, one of its links is malformed, or its
\* canonical link is no http URL.
SubjectKept ==
    \A page \in DOMAIN results :
        Presents(page) /\ Digestible(page) /\ page.wellformed /\ CanonicalUrl(page).http
            => page \in Persisted /\ results[page].record.name.kind \in {"text", "postal"}
=============================================================================
