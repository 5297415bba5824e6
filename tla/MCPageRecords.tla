---------------------------- MODULE MCPageRecords ----------------------------
(***************************************************************************)
(* Instances of PageRecords for TLC: the pages of two products and of two  *)
(* facilities, all combinations of what they may show.                     *)
(***************************************************************************)
EXTENDS PageRecords

CONSTANTS x, y,  \* two products, or two facilities
          s      \* the shop, or the area, they are of

\* what is said of a thing, each key with the kind of its value
Of(t, kinds) == [key \in DOMAIN kinds |-> [of |-> t, kind |-> kinds[key]]]

Block(types, has) == [types |-> types, has |-> has]
Shown(of, key, kind) == [of |-> of, key |-> key, kind |-> kind]
Path(ids) == [ids |-> ids, http |-> TRUE]
NoHttp == [ids |-> <<>>, http |-> FALSE]
Other(t) == IF t = x THEN y ELSE x

Coded == [name |-> "text", gtin |-> "text", category |-> "text"]

\* a product with its GTIN, one of its own site's code only, two without a proper name, two
\* with codes that are not there or are false, one whose MPN is the other's SKU, and one
\* with an image
Contents(t) ==
    {Of(t, Coded), Of(t, [name |-> "list", price |-> "number"]),
     Of(t, [name |-> "blank", sku |-> "number", size |-> "text"]),
     Of(t, [brand |-> "text", gtin |-> "blank"]),
     Of(t, [name |-> "text", sku |-> "falsy", mpn |-> "empty"]),
     Of(t, [name |-> "text", brand |-> "falsy", gtin |-> "falsy"]),
     Of(t, [name |-> "text"]) @@ Of(Other(t), [mpn |-> "text"])}
    \cup {Of(t, [name |-> "text", image |-> kind]) : kind \in {"list", "object", "number"}}

\* the product alone, after the shop, next to a related one, and a listing page
FigureBlocks(t) ==
    {<<>>, <<Block({"Organization"}, Of(s, [name |-> "text"]))>>}
    \cup {<<Block({"Product"}, has)>> : has \in Contents(t)}
    \cup {<<Block({"Organization"}, Of(s, [name |-> kind])), Block({"Product", "Thing"}, has)>> :
             kind \in {"text", "number"}, has \in {Of(t, Coded), Of(t, [name |-> "list", price |-> "number"])}}
    \cup {<<Block({"Organization"}, Of(s, [name |-> kind])),
            Block({"Product"}, Of(t, [name |-> "blank", brand |-> "text"]))>> : kind \in {"blank", "falsy"}}
    \cup {<<Block({"Product"}, has), Block({"Product"}, Of(Other(t), [name |-> "text", sku |-> "text"]))>> :
             has \in {Of(t, Coded), Of(t, [name |-> "text"])}}
    \cup {<<Block({"Product"}, Of(Other(t), [name |-> "text", sku |-> "text"])), Block({"Product"}, Of(t, Coded))>>}

Item(t) == Of(t, [item_id |-> "number", item_name |-> "text", item_brand |-> "text"])
Push(context, listed, items) == [context |-> context, listed |-> listed, items |-> items]

\* a page view and an item; an item next to a related one, before or after it, whose codes are
\* not there, null or 0; a list
Pushes(t) ==
    {<<>>,
     <<Push(Of(t, [item_category |-> "text"]), FALSE, <<>>), Push(<<>>, TRUE, <<Item(t)>>)>>,
     <<Push(Of(t, [product_master_code |-> "text"]), TRUE,
            <<Item(t), Of(Other(t), [price |-> "number", item_id |-> "blank"])>>)>>,
     <<Push(<<>>, TRUE, <<Item(Other(t)), Item(t)>>)>>,
     <<Push(Of(Other(t), [product_master_code |-> "text"]), TRUE, <<Item(Other(t))>>),
       Push(<<>>, TRUE, <<Of(t, [product_master_code |-> "empty", item_id |-> "number"])>>)>>,
     <<Push(<<>>, TRUE, <<Item(t), Of(t, [item_id |-> "falsy"])>>)>>,
     <<Push(<<>>, TRUE, <<Item(t)>>), Push(<<>>, TRUE, <<Item(Other(t))>>)>>}

FigurePage(t, blocks, pushes, heading, canonical, wellformed) ==
    [about |-> t, blocks |-> blocks, pushes |-> pushes, heading |-> heading, numbers |-> <<>>,
     url |-> Path(<<>>), canonical |-> canonical, wellformed |-> wellformed]

FigurePages ==
    UNION {{FigurePage(t, blocks, pushes, None, None, TRUE) :
               blocks \in FigureBlocks(t), pushes \in Pushes(t)} : t \in {x, y}}
    \cup UNION {{FigurePage(t, blocks, <<Push(<<>>, TRUE, <<Item(t)>>)>>, Shown(t, "heading", "text"), None, TRUE) :
                    blocks \in FigureBlocks(t)} : t \in {x, y}}
    \cup UNION {{FigurePage(t, <<Block({"Product"}, Of(t, Coded))>>, <<>>, None, canonical, wellformed) :
                    canonical \in {None, NoHttp}, wellformed \in BOOLEAN} : t \in {x, y}}

\* a facility's JSON-LD, alone or after its area's, with a name and number of any kind
CouplesBlocks(t) ==
    {<<>>}
    \cup {<<Block({"Hotel"}, has)>> :
             has \in {Of(t, [name |-> "text", address |-> "postal"]), Of(t, [name |-> "list"]),
                      Of(t, [name |-> "falsy", address |-> "list"]), Of(t, [telephone |-> "number"]),
                      Of(t, [name |-> "blank", address |-> "text"])}}
    \cup {<<Block({"Organization"}, Of(s, [name |-> "number"])), Block({"Hotel"}, Of(t, [name |-> "text"]))>>,
          <<Block({"object"}, <<>>), Block({"Hotel"}, Of(t, [name |-> "text"]))>>}
    \cup {<<Block({"Organization"}, Of(s, [name |-> "text", address |-> "text"])),
            Block({"LocalBusiness"}, Of(t, [name |-> "text", telephone |-> kind]))>> :
             kind \in {"text", "falsy"}}

\* a telephone number with and without dashes, a postal code
Numbers(t) ==
    {<<>>, <<Shown(s, "telephone", "text")>>,
     <<Shown(s, "telephone", "postal"), Shown(t, "address", "postal")>>}

\* the numbers of its URL and its canonical link; the area has pages of its own
Links(t) ==
    IF t = s THEN {<<Path(<<>>), None>>, <<Path(<<s>>), None>>}
    ELSE {<<Path(<<t, s>>), None>>, <<Path(<<>>), None>>}
         \cup {<<Path(<<s, t>>), canonical>> : canonical \in {None, NoHttp, Path(<<t>>)}}

CouplesPages ==
    UNION {{[about |-> t, blocks |-> blocks, pushes |-> <<>>, heading |-> heading,
             numbers |-> numbers, url |-> link[1], canonical |-> link[2], wellformed |-> TRUE] :
               blocks \in IF t = s THEN {<<>>} ELSE CouplesBlocks(t),
               heading \in {None, Shown(t, "heading", "text")},
               numbers \in Numbers(t), link \in Links(t)} :
           t \in {x, y, s}}
    \cup {[about |-> t, blocks |-> <<>>, pushes |-> <<>>, heading |-> Shown(t, "heading", "text"),
           numbers |-> <<>>, url |-> Path(<<t>>), canonical |-> None, wellformed |-> FALSE] : t \in {x, y}}

MCPages ==
    [adapter_ \in Adapters |-> IF adapter_ = "figure_official_site" THEN FigurePages ELSE CouplesPages]

Symmetry == Permutations({x, y})
=============================================================================
