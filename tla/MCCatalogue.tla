----------------------------- MODULE MCCatalogue -----------------------------
EXTENDS Catalogue
CONSTANTS w1, w2
=============================================================================
