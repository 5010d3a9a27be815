---------------------------- MODULE MCStorefront ----------------------------
(***************************************************************************)
(* Storefront with one product, which may be saved again at another price, *)
(* in another currency and so with a new variant.  Workers are alike.      *)
(***************************************************************************)
EXTENDS Storefront, TLC

OnSale(variants) ==
  [v \in variants |-> [isActive |-> TRUE, priceOverride |-> NoOverride]]

ProductsDef    == {"coat"}
VariantsDef    == 1..2
CurrenciesDef  == {"USD", "ARS"}
NewProductsDef ==
  {[id |-> "coat", isActive |-> TRUE, price |-> 1, currency |-> "USD",
    variants |-> OnSale({1})]}
EditsDef ==
  {[id |-> "coat", price |-> 2, currency |-> "ARS", variants |-> OnSale({2})]}
WorkerSymmetry == Permutations(Workers)
=============================================================================
