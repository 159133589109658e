\* Two builds, every compressor and ZLIB only: -x/-X parsing, the
\* FS_COMPR_FL fallback, favor_lzo and every compressor outcome.
CONSTANTS
  Builds = {{"lzo", "zlib", "zstd"}, {"zlib"}}
  XArgs = {"absent", "none", "lzo", "zlib", "zstd", "favor_lzo", "bogus"}
  XPercentArgs = {0, 50, 100}
  InLens = {100, 4096}
  OutLens = {50, 80, 100, 4096, 4200}
  MaxBlocks = 2
SPECIFICATION Spec
INVARIANTS TypeOK ResultDecodable CompressorAlwaysBuilt EncryptedNotCompressed FavorLzoPolicy
CHECK_DEADLOCK FALSE
