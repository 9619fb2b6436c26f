--------------------------- MODULE ProductService ---------------------------
(***************************************************************************)
(* The product service: a catalogue that is seeded and then only read.     *)
(* Ids come as texts; several texts may spell one UUID.  Names and         *)
(* descriptions are left out.                                              *)
(***************************************************************************)
CONSTANTS Texts,    \* what may be sent as a product id
          Value,    \* uuid.Parse: the product a text spells, or NoUUID
          Prices    \* the rows of products: the products on sale, their cents

NoUUID == "not a UUID"

\* toProto: the stock is the inventory's, and always 0 here.
Product(p) == [id |-> p, price_cents |-> Prices[p], stock |-> 0]

Code(code) == [code |-> code]

\* One product, by the value of its id.
GetProduct(text) ==
    IF Value[text] = NoUUID THEN Code("InvalidArgument")
    ELSE IF Value[text] \in DOMAIN Prices
         THEN [code |-> "OK", product |-> Product(Value[text])]
    ELSE Code("NotFound")

\* The whole catalogue; its order, by name, is left out.
ListProducts == { Product(p) : p \in DOMAIN Prices }
=============================================================================
