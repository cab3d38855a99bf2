\* Values at every boundary: the 512-second clamp and unit, the 16-bit mask,
\* the relative time and height limits, the absolute threshold and the
\* largest nLockTime; numbers with and without the BIP68 type flag.
CONSTANTS
  MaxSigners = 6
  Values = {0, 1, 2, 511, 512, 513, 1023, 1024, 65534, 65535, 65536,
            33553919, 33553920, 33554430, 33554431, 33554432,
            499999999, 500000000, 500000001, 2147483647}
  Ks = {0, 1, 2, 65534, 65535, 65536, 4194304, 4194305, 4194306, 4259838,
        4259839, 4259840, 499999999, 500000000}
SPECIFICATION CodecsSpec
INVARIANTS
  KEncodesValue
  MiniscriptRoundTrip
  \* Wallets of up to six signers: five is the largest with a musig script
  \* tree, six takes the multi_a branch.
  DescriptorRoundTrip
  MusigCoversCombinations
