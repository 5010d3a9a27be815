------------------------------ MODULE Catalog ------------------------------
(***************************************************************************)
(* catalog-service: products, what they cost and the variants they are     *)
(* sold in.  A variant's identifier is given by the database, and an edit  *)
(* that names variants, as every save of the administrator's form does,    *)
(* deletes those there are and creates new ones, with new identifiers,     *)
(* even when they are the same sizes and colours as before.                *)
(*                                                                         *)
(* Only what a cart reads of a product is kept: whether it is on sale, its *)
(* price and currency, and of each variant whether it is on sale and the   *)
(* price that overrides the product's.                                     *)
(***************************************************************************)
EXTENDS Integers

CONSTANTS Products, Variants, \* identifiers of products and of variants
          Currencies,
          NewProducts,        \* the products that may be created
          Edits               \* the updates that may be made

Prices     == Nat
NoOverride == -1

VariantData == [isActive : BOOLEAN, priceOverride : Prices \cup {NoOverride}]

NoProduct == [exists |-> FALSE]

(* What the gateway lets through: a product has a currency and a price of  *)
(* zero or more; an update has any of the fields.                          *)
IsVariants(vs) == /\ DOMAIN vs \subseteq Variants
                  /\ \A v \in DOMAIN vs : vs[v] \in VariantData

IsProduct(p) ==
  /\ DOMAIN p = {"id", "isActive", "price", "currency", "variants"}
  /\ p.id \in Products /\ p.isActive \in BOOLEAN
  /\ p.price \in Prices /\ p.currency \in Currencies
  /\ IsVariants(p.variants)

IsEdit(e) ==
  /\ {"id"} \subseteq DOMAIN e
  /\ DOMAIN e \subseteq {"id", "isActive", "price", "currency", "variants"}
  /\ e.id \in Products
  /\ "isActive" \in DOMAIN e => e.isActive \in BOOLEAN
  /\ "price" \in DOMAIN e    => e.price \in Prices
  /\ "currency" \in DOMAIN e => e.currency \in Currencies
  /\ "variants" \in DOMAIN e => IsVariants(e.variants)

ASSUME CatalogAssumption ==
  (\A p \in NewProducts : IsProduct(p)) /\ (\A e \in Edits : IsEdit(e))

VARIABLES products,  \* products[p]: the row of p with its variants
          issued     \* the variant identifiers given so far

catalog == <<products, issued>>

Row(p) == [exists |-> TRUE, isActive |-> p.isActive, price |-> p.price,
           currency |-> p.currency, variants |-> p.variants]

CatalogInit == /\ products = [p \in Products |-> NoProduct]
               /\ issued = {}

(* createProduct: slug and base SKU are unique.                            *)
CreateProduct(p) ==
  /\ ~products[p.id].exists
  /\ DOMAIN p.variants \cap issued = {}
  /\ products' = [products EXCEPT ![p.id] = Row(p)]
  /\ issued' = issued \cup DOMAIN p.variants

(* updateProduct.  Identifiers are new.                                    *)
NewVariants(e) == IF "variants" \in DOMAIN e THEN DOMAIN e.variants ELSE {}

UpdateProduct(e) ==
  /\ products[e.id].exists
  /\ NewVariants(e) \cap issued = {}
  /\ products' = [products EXCEPT ![e.id] =
       [f \in DOMAIN @ |-> IF f \in DOMAIN e THEN e[f] ELSE @[f]]]
  /\ issued' = issued \cup NewVariants(e)

(* getProduct, for the shop: a product that is not on sale is not found.   *)
GetProduct(p) == IF products[p].exists /\ products[p].isActive
                 THEN products[p] ELSE NoProduct

-----------------------------------------------------------------------------
(* buildItemSnapshot in cart-service: the variant that a product offers.   *)

Offers(product, v) == /\ product.exists
                      /\ v \in DOMAIN product.variants
                      /\ product.variants[v].isActive

UnitPrice(product, v) ==
  IF product.variants[v].priceOverride = NoOverride
  THEN product.price ELSE product.variants[v].priceOverride
=============================================================================
