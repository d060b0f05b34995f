----------------------------- MODULE MCOtfProduct -----------------------------
EXTENDS OtfProduct, SampleProblems

MCProblems == TwoTaus \cup FiveTaus
===============================================================================
