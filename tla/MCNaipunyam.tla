------------------------------ MODULE MCNaipunyam ------------------------------
EXTENDS Naipunyam

\* Late failures push the count past the threshold without end.
FewFailures == failures <= 2 * FailureThreshold
================================================================================
